---- MODULE Spec2Model ----
(***************************************************************************)
(* Dou Dizhu rule engine: cards (server/game/cards.ts), pattern           *)
(* recognition and comparison (server/game/cardTypes.ts) and the turn      *)
(* state machine (server/game/gameEngine.ts).                              *)
(*                                                                         *)
(* JavaScript strings are modelled as sequences of UTF-16 code units, each *)
(* unit written as an ASCII name: "S" "H" "C" "D" stand for the four suit  *)
(* glyphs, <<"Jhi", "Jlo">> for the joker glyph (one astral code point,    *)
(* two code units), <<"xiao", "wang">> and <<"da", "wang">> for the two    *)
(* joker rank names.  null / undefined is the empty tuple Null and a       *)
(* present value x is Some(x).                                             *)
(***************************************************************************)
EXTENDS Integers, Sequences, FiniteSets, TLC

Null == <<>>
Some(x) == <<x>>

(***************************************************************************)
(* cards.ts                                                                *)
(***************************************************************************)
SPADE == <<"S">>
HEART == <<"H">>
CLUB == <<"C">>
DIAMOND == <<"D">>
JOKER == <<"Jhi", "Jlo">>

THREE == <<"3">>
FOUR == <<"4">>
FIVE == <<"5">>
SIX == <<"6">>
SEVEN == <<"7">>
EIGHT == <<"8">>
NINE == <<"9">>
TEN == <<"1", "0">>
JACK == <<"J">>
QUEEN == <<"Q">>
KING == <<"K">>
ACE == <<"A">>
TWO == <<"2">>
SMALL_JOKER == <<"xiao", "wang">>
BIG_JOKER == <<"da", "wang">>

\* Object.values(Suit), Object.values(Rank) in declaration order
Suit == <<SPADE, HEART, CLUB, DIAMOND, JOKER>>
Rank == <<THREE, FOUR, FIVE, SIX, SEVEN, EIGHT, NINE, TEN, JACK, QUEEN,
          KING, ACE, TWO, SMALL_JOKER, BIG_JOKER>>

Range(s) == {s[i] : i \in DOMAIN s}

\* RANK_VALUES[rank]: the i-th rank of the enum has value i + 2
RANK_VALUES(rank) == (CHOOSE i \in DOMAIN Rank : Rank[i] = rank) + 2

MkCard(suit, rank) == [suit |-> suit, rank |-> rank, value |-> RANK_VALUES(rank)]

createDeck ==
    LET suits == <<SPADE, HEART, CLUB, DIAMOND>>
        ranks == SubSeq(Rank, 1, 13)
    IN [i \in 1..52 |-> MkCard(suits[((i - 1) \div 13) + 1], ranks[((i - 1) % 13) + 1])] \o <<>>
       \o <<MkCard(JOKER, SMALL_JOKER), MkCard(JOKER, BIG_JOKER)>>

Swap(s, a, b) == [s EXCEPT ![a] = s[b], ![b] = s[a]]

\* The Fisher-Yates loop for i = length-1 down to 1 (0-based); rnd[i] is the
\* value Math.floor(Math.random() * (i + 1)) drawn in iteration i.
RECURSIVE shuffleLoop(_, _, _)
shuffleLoop(shuffled, i, rnd) ==
    IF i <= 0 THEN shuffled
    ELSE shuffleLoop(Swap(shuffled, i + 1, rnd[i] + 1), i - 1, rnd)

shuffleDeck(deck, rnd) == shuffleLoop(deck, Len(deck) - 1, rnd)

\* [...cards].sort((a, b) => a.value - b.value): a stable sort by value
sortCards(cards) ==
    LET n == Len(cards)
        Before(j, i) == \/ cards[j].value < cards[i].value
                        \/ cards[j].value = cards[i].value /\ j < i
        pos == [i \in 1..n |-> Cardinality({j \in 1..n : Before(j, i)}) + 1] \o <<>>
    IN [k \in 1..n |-> cards[CHOOSE i \in 1..n : pos[i] = k]] \o <<>>

\* deck.slice(a, b) with 0-based bounds
Slice(s, a, b) == SubSeq(s, a + 1, b)

\* faulty variant: the slice boundaries are off by one
dealCardsMisSliced(rnd) ==
    LET deck == shuffleDeck(createDeck, rnd)
    IN [player0 |-> sortCards(Slice(deck, 0, 18)),
        player1 |-> sortCards(Slice(deck, 18, 35)),
        player2 |-> sortCards(Slice(deck, 35, 51)),
        landlordCards |-> sortCards(Slice(deck, 51, 54))]

dealCards(rnd) ==
    LET deck == shuffleDeck(createDeck, rnd)
    IN [player0 |-> sortCards(Slice(deck, 0, 17)),
        player1 |-> sortCards(Slice(deck, 17, 34)),
        player2 |-> sortCards(Slice(deck, 34, 51)),
        landlordCards |-> sortCards(Slice(deck, 51, 54))]

\* faulty variant: a joker is written with its suit like any other card
cardToStringWithSuit(card) == card.suit \o card.rank

cardToString(card) ==
    IF card.rank = SMALL_JOKER \/ card.rank = BIG_JOKER
    THEN card.rank
    ELSE card.suit \o card.rank

cardsToStrings(cards) == [i \in DOMAIN cards |-> cardToString(cards[i])] \o <<>>

\* str.slice(1)
SliceFrom1(str) == SubSeq(str, 2, Len(str))

\* stringToCard: Some(card), or Null for the result null
stringToCard(str) ==
    IF str = SMALL_JOKER THEN Some(MkCard(JOKER, SMALL_JOKER))
    ELSE IF str = BIG_JOKER THEN Some(MkCard(JOKER, BIG_JOKER))
    ELSE
    LET suitChar == IF Len(str) = 0 THEN Null ELSE Some(<<str[1]>>)
        rankStr == SliceFrom1(str)
        suit == {i \in DOMAIN Suit : Some(Suit[i]) = suitChar}
        rank == {i \in DOMAIN Rank : Rank[i] = rankStr}
    IN IF suit = {} \/ rank = {} THEN Null
       ELSE LET foundSuit == Suit[CHOOSE i \in suit : TRUE]
                foundRank == Rank[CHOOSE i \in rank : TRUE]
            IN Some(MkCard(foundSuit, foundRank))

\* countCards: Map<value, count>
countCards(cards) ==
    [v \in {cards[i].value : i \in DOMAIN cards} |->
        Cardinality({i \in DOMAIN cards : cards[i].value = v})]

\* `${c.suit}-${c.rank}`
CardId(c) == c.suit \o <<"-">> \o c.rank

IdCount(cards, id) == Cardinality({i \in DOMAIN cards : CardId(cards[i]) = id})

\* faulty variant: presence of each identity is tested, its multiplicity is not
hasCardsAnyCount(hand, cards) ==
    \A id \in {CardId(cards[i]) : i \in DOMAIN cards} : IdCount(hand, id) >= 1

hasCards(hand, cards) ==
    \A id \in {CardId(cards[i]) : i \in DOMAIN cards} :
        ~(IdCount(hand, id) < IdCount(cards, id))

\* result.splice(i, 1)
Splice(s, i) == SubSeq(s, 1, i - 1) \o SubSeq(s, i + 1, Len(s))

\* inner loop of removeCards: scan from the back, drop matches until count
RECURSIVE removeFromBack(_, _, _, _, _)
removeFromBack(result, i, cardId, count, removed) ==
    IF i < 1 \/ ~(removed < count) THEN result
    ELSE IF CardId(result[i]) = cardId
         THEN removeFromBack(Splice(result, i), i - 1, cardId, count, removed + 1)
         ELSE removeFromBack(result, i - 1, cardId, count, removed)

\* the keys of cardCounts in insertion order (first occurrence in cards)
IdOrder(cards) ==
    LET firsts == {i \in DOMAIN cards : \A j \in 1..(i - 1) : CardId(cards[j]) # CardId(cards[i])}
        nth(k) == CHOOSE i \in firsts : Cardinality({j \in firsts : j < i}) = k - 1
    IN [k \in 1..Cardinality(firsts) |-> CardId(cards[nth(k)])] \o <<>>

RECURSIVE removeLoop(_, _, _, _)
removeLoop(result, ids, k, cards) ==
    IF k > Len(ids) THEN result
    ELSE removeLoop(removeFromBack(result, Len(result), ids[k], IdCount(cards, ids[k]), 0),
                    ids, k + 1, cards)

\* faulty variant: cards are matched by value instead of by suit and rank
removeCardsByValue(hand, cards) ==
    SelectSeq(hand, LAMBDA c : \A i \in DOMAIN cards : cards[i].value # c.value)

removeCards(hand, cards) == removeLoop(hand, IdOrder(cards), 1, cards)

(***************************************************************************)
(* cardTypes.ts                                                            *)
(***************************************************************************)
INVALID == "invalid"
SINGLE == "single"
PAIR == "pair"
TRIO == "trio"
TRIO_SINGLE == "trio_single"
TRIO_PAIR == "trio_pair"
STRAIGHT == "straight"
PAIR_STRAIGHT == "pair_straight"
TRIO_STRAIGHT == "trio_straight"
TRIO_STRAIGHT_SINGLE == "trio_straight_single"
TRIO_STRAIGHT_PAIR == "trio_straight_pair"
FOUR_DUAL_SINGLE == "four_dual_single"
FOUR_DUAL_PAIR == "four_dual_pair"
BOMB == "bomb"
ROCKET == "rocket"

\* a set of numbers as an ascending sequence: keys.sort((a, b) => a - b)
Ascending(S) ==
    [k \in 1..Cardinality(S) |-> CHOOSE v \in S : Cardinality({w \in S : w < v}) = k - 1] \o <<>>

\* Array.from(counts.values()).sort((a, b) => b - a)
CountValuesDesc(counts) ==
    LET keys == Ascending(DOMAIN counts)
        n == Len(keys)
        Before(j, i) == \/ counts[keys[j]] > counts[keys[i]]
                        \/ counts[keys[j]] = counts[keys[i]] /\ j < i
        Pos(i) == Cardinality({j \in 1..n : Before(j, i)}) + 1
    IN [k \in 1..n |-> counts[keys[CHOOSE i \in 1..n : Pos(i) = k]]] \o <<>>

Size(counts) == Cardinality(DOMAIN counts)

\* Array.from(counts.values())[0] of a map built from cards sorted by value
FirstCount(counts) == counts[Ascending(DOMAIN counts)[1]]

isRocket(cards, counts) ==
    IF Len(cards) # 2 THEN FALSE
    ELSE cards[1].rank = SMALL_JOKER /\ cards[2].rank = BIG_JOKER

isBomb(counts) == IF Size(counts) # 1 THEN FALSE ELSE FirstCount(counts) = 4

isPair(counts) == IF Size(counts) # 1 THEN FALSE ELSE FirstCount(counts) = 2

isTrio(counts) == IF Size(counts) # 1 THEN FALSE ELSE FirstCount(counts) = 3

isTrioSingle(counts) ==
    IF Size(counts) # 2 THEN FALSE
    ELSE LET countValues == CountValuesDesc(counts)
         IN countValues[1] = 3 /\ countValues[2] = 1

isTrioPair(counts) ==
    IF Size(counts) # 2 THEN FALSE
    ELSE LET countValues == CountValuesDesc(counts)
         IN countValues[1] = 3 /\ countValues[2] = 2

\* first key, in insertion (ascending) order, whose count is n; 0 when none
FindValueWithCount(counts, n) ==
    LET hits == {v \in DOMAIN counts : counts[v] = n}
    IN IF hits = {} THEN 0 ELSE Ascending(hits)[1]

findTrioValue(counts) == FindValueWithCount(counts, 3)

findFourValue(counts) == FindValueWithCount(counts, 4)

Consecutive(values) == \A i \in 2..Len(values) : values[i] - values[i - 1] = 1

\* common body of isStraight / isPairStraight / isTrioStraight
RunOf(uniqueValues, counts, minLen, each) ==
    IF Len(uniqueValues) < minLen THEN Null
    ELSE IF \E i \in DOMAIN uniqueValues : uniqueValues[i] >= 15 THEN Null
    ELSE IF \E i \in DOMAIN uniqueValues : counts[uniqueValues[i]] # each THEN Null
    ELSE IF ~Consecutive(uniqueValues) THEN Null
    ELSE Some([minValue |-> uniqueValues[1], length |-> Len(uniqueValues)])

\* faulty variant: four consecutive singles pass for a straight
isStraightOfFour(uniqueValues, counts) == RunOf(uniqueValues, counts, 4, 1)

isStraight(uniqueValues, counts) == RunOf(uniqueValues, counts, 5, 1)

isPairStraight(uniqueValues, counts) == RunOf(uniqueValues, counts, 3, 2)

isTrioStraight(uniqueValues, counts) == RunOf(uniqueValues, counts, 2, 3)

\* faulty variant: the number of wings is not compared with the number of trios
WingedRunAnyWings(uniqueValues, counts, wing) ==
    LET vals == Range(uniqueValues)
        trioValues == Ascending({v \in vals : counts[v] = 3})
        wingValues == Ascending({v \in vals : counts[v] = wing})
    IN IF \E v \in vals : counts[v] # 3 /\ counts[v] # wing THEN Null
       ELSE IF Len(trioValues) < 2 THEN Null
       ELSE IF \E i \in DOMAIN trioValues : trioValues[i] >= 15 THEN Null
       ELSE IF ~Consecutive(trioValues) THEN Null
       ELSE Some([minValue |-> trioValues[1], length |-> Len(trioValues)])

\* common body of isTrioStraightSingle (wing = 1) / isTrioStraightPair (wing = 2)
WingedRun(uniqueValues, counts, wing) ==
    LET vals == Range(uniqueValues)
        trioValues == Ascending({v \in vals : counts[v] = 3})
        wingValues == Ascending({v \in vals : counts[v] = wing})
    IN IF \E v \in vals : counts[v] # 3 /\ counts[v] # wing THEN Null
       ELSE IF Len(trioValues) < 2 THEN Null
       ELSE IF Len(wingValues) # Len(trioValues) THEN Null
       ELSE IF \E i \in DOMAIN trioValues : trioValues[i] >= 15 THEN Null
       ELSE IF ~Consecutive(trioValues) THEN Null
       ELSE Some([minValue |-> trioValues[1], length |-> Len(trioValues)])

isTrioStraightSingle(uniqueValues, counts) == WingedRun(uniqueValues, counts, 1)

isTrioStraightPair(uniqueValues, counts) == WingedRun(uniqueValues, counts, 2)

isFourDualSingle(counts) ==
    IF Size(counts) # 3 THEN FALSE
    ELSE LET countValues == CountValuesDesc(counts)
         IN countValues[1] = 4 /\ countValues[2] = 1 /\ countValues[3] = 1

isFourDualPair(counts) ==
    IF Size(counts) # 3 THEN FALSE
    ELSE LET countValues == CountValuesDesc(counts)
         IN countValues[1] = 4 /\ countValues[2] = 2 /\ countValues[3] = 2

Pattern(type, value, length, cards) ==
    [type |-> type, value |-> value, length |-> length, cards |-> cards]

\* faulty variant: the cards are classified in the order given, without sorting
recognizePatternAsGiven(cards) ==
    IF Len(cards) = 0 THEN Pattern(INVALID, 0, 0, cards)
    ELSE
    LET sorted == cards
        counts == countCards(sorted)
        uniqueValues == Ascending(DOMAIN counts)
        straightResult == isStraight(uniqueValues, counts)
        pairStraightResult == isPairStraight(uniqueValues, counts)
        trioStraightResult == isTrioStraight(uniqueValues, counts)
        trioStraightSingleResult == isTrioStraightSingle(uniqueValues, counts)
        trioStraightPairResult == isTrioStraightPair(uniqueValues, counts)
    IN CASE isRocket(sorted, counts) -> Pattern(ROCKET, 17, 2, sorted)
         [] ~isRocket(sorted, counts) /\ isBomb(counts) -> Pattern(BOMB, uniqueValues[1], 4, sorted)
         [] OTHER ->
            IF Len(cards) = 1 THEN Pattern(SINGLE, cards[1].value, 1, sorted)
            ELSE IF isPair(counts) THEN Pattern(PAIR, uniqueValues[1], 2, sorted)
            ELSE IF isTrio(counts) THEN Pattern(TRIO, uniqueValues[1], 3, sorted)
            ELSE IF isTrioSingle(counts) THEN Pattern(TRIO_SINGLE, findTrioValue(counts), 4, sorted)
            ELSE IF isTrioPair(counts) THEN Pattern(TRIO_PAIR, findTrioValue(counts), 5, sorted)
            ELSE IF straightResult # Null
                 THEN Pattern(STRAIGHT, straightResult[1].minValue, straightResult[1].length, sorted)
            ELSE IF pairStraightResult # Null
                 THEN Pattern(PAIR_STRAIGHT, pairStraightResult[1].minValue, pairStraightResult[1].length, sorted)
            ELSE IF trioStraightResult # Null
                 THEN Pattern(TRIO_STRAIGHT, trioStraightResult[1].minValue, trioStraightResult[1].length, sorted)
            ELSE IF trioStraightSingleResult # Null
                 THEN Pattern(TRIO_STRAIGHT_SINGLE, trioStraightSingleResult[1].minValue,
                              trioStraightSingleResult[1].length, sorted)
            ELSE IF trioStraightPairResult # Null
                 THEN Pattern(TRIO_STRAIGHT_PAIR, trioStraightPairResult[1].minValue,
                              trioStraightPairResult[1].length, sorted)
            ELSE IF isFourDualSingle(counts) THEN Pattern(FOUR_DUAL_SINGLE, findFourValue(counts), 6, sorted)
            ELSE IF isFourDualPair(counts) THEN Pattern(FOUR_DUAL_PAIR, findFourValue(counts), 8, sorted)
            ELSE Pattern(INVALID, 0, 0, sorted)

recognizePattern(cards) ==
    IF Len(cards) = 0 THEN Pattern(INVALID, 0, 0, cards)
    ELSE
    LET sorted == sortCards(cards)
        counts == countCards(sorted)
        uniqueValues == Ascending(DOMAIN counts)
        straightResult == isStraight(uniqueValues, counts)
        pairStraightResult == isPairStraight(uniqueValues, counts)
        trioStraightResult == isTrioStraight(uniqueValues, counts)
        trioStraightSingleResult == isTrioStraightSingle(uniqueValues, counts)
        trioStraightPairResult == isTrioStraightPair(uniqueValues, counts)
    IN CASE isRocket(sorted, counts) -> Pattern(ROCKET, 17, 2, sorted)
         [] ~isRocket(sorted, counts) /\ isBomb(counts) -> Pattern(BOMB, uniqueValues[1], 4, sorted)
         [] OTHER ->
            IF Len(cards) = 1 THEN Pattern(SINGLE, cards[1].value, 1, sorted)
            ELSE IF isPair(counts) THEN Pattern(PAIR, uniqueValues[1], 2, sorted)
            ELSE IF isTrio(counts) THEN Pattern(TRIO, uniqueValues[1], 3, sorted)
            ELSE IF isTrioSingle(counts) THEN Pattern(TRIO_SINGLE, findTrioValue(counts), 4, sorted)
            ELSE IF isTrioPair(counts) THEN Pattern(TRIO_PAIR, findTrioValue(counts), 5, sorted)
            ELSE IF straightResult # Null
                 THEN Pattern(STRAIGHT, straightResult[1].minValue, straightResult[1].length, sorted)
            ELSE IF pairStraightResult # Null
                 THEN Pattern(PAIR_STRAIGHT, pairStraightResult[1].minValue, pairStraightResult[1].length, sorted)
            ELSE IF trioStraightResult # Null
                 THEN Pattern(TRIO_STRAIGHT, trioStraightResult[1].minValue, trioStraightResult[1].length, sorted)
            ELSE IF trioStraightSingleResult # Null
                 THEN Pattern(TRIO_STRAIGHT_SINGLE, trioStraightSingleResult[1].minValue,
                              trioStraightSingleResult[1].length, sorted)
            ELSE IF trioStraightPairResult # Null
                 THEN Pattern(TRIO_STRAIGHT_PAIR, trioStraightPairResult[1].minValue,
                              trioStraightPairResult[1].length, sorted)
            ELSE IF isFourDualSingle(counts) THEN Pattern(FOUR_DUAL_SINGLE, findFourValue(counts), 6, sorted)
            ELSE IF isFourDualPair(counts) THEN Pattern(FOUR_DUAL_PAIR, findFourValue(counts), 8, sorted)
            ELSE Pattern(INVALID, 0, 0, sorted)

\* 1, 0, -1, or Null when the patterns cannot be compared
Cmp(a, b) == IF a > b THEN 1 ELSE IF a < b THEN -1 ELSE 0

\* faulty variant: a bomb is compared by value with a pattern that is no bomb
comparePatternsBombByValue(pattern1, pattern2) ==
    IF pattern1.type = ROCKET THEN Some(1)
    ELSE IF pattern2.type = ROCKET THEN Some(-1)
    ELSE IF pattern1.type = BOMB \/ pattern2.type = BOMB
         THEN Some(Cmp(pattern1.value, pattern2.value))
    ELSE IF pattern1.type # pattern2.type THEN Null
    ELSE IF /\ pattern1.type \in {STRAIGHT, PAIR_STRAIGHT, TRIO_STRAIGHT,
                                  TRIO_STRAIGHT_SINGLE, TRIO_STRAIGHT_PAIR}
            /\ pattern1.length # pattern2.length
         THEN Null
    ELSE Some(Cmp(pattern1.value, pattern2.value))

\* faulty variant: runs of different lengths are compared by value
comparePatternsAnyLength(pattern1, pattern2) ==
    IF pattern1.type = ROCKET THEN Some(1)
    ELSE IF pattern2.type = ROCKET THEN Some(-1)
    ELSE IF pattern1.type = BOMB /\ pattern2.type # BOMB THEN Some(1)
    ELSE IF pattern2.type = BOMB /\ pattern1.type # BOMB THEN Some(-1)
    ELSE IF pattern1.type = BOMB /\ pattern2.type = BOMB
         THEN Some(Cmp(pattern1.value, pattern2.value))
    ELSE IF pattern1.type # pattern2.type THEN Null
    ELSE Some(Cmp(pattern1.value, pattern2.value))

comparePatterns(pattern1, pattern2) ==
    IF pattern1.type = ROCKET THEN Some(1)
    ELSE IF pattern2.type = ROCKET THEN Some(-1)
    ELSE IF pattern1.type = BOMB /\ pattern2.type # BOMB THEN Some(1)
    ELSE IF pattern2.type = BOMB /\ pattern1.type # BOMB THEN Some(-1)
    ELSE IF pattern1.type = BOMB /\ pattern2.type = BOMB
         THEN Some(Cmp(pattern1.value, pattern2.value))
    ELSE IF pattern1.type # pattern2.type THEN Null
    ELSE IF /\ pattern1.type \in {STRAIGHT, PAIR_STRAIGHT, TRIO_STRAIGHT,
                                  TRIO_STRAIGHT_SINGLE, TRIO_STRAIGHT_PAIR}
            /\ pattern1.length # pattern2.length
         THEN Null
    ELSE Some(Cmp(pattern1.value, pattern2.value))

canBeat(pattern1, pattern2) == comparePatterns(pattern1, pattern2) = Some(1)

(***************************************************************************)
(* gameEngine.ts                                                           *)
(***************************************************************************)
BIDDING == "bidding"
PLAYING == "playing"
FINISHED == "finished"

\* new Date(): the wall clock is not modelled, every timestamp is this token
Date == "Date"

\* Every GameState produced from one createGame result holds the same `hands`
\* object ({ ...state } copies the reference): states store the reference and
\* heap maps it to the object's three fields.
HandsRef == 1

VARIABLES
    game,   \* the GameState value the caller holds and passes to the next call
    heap,   \* HandsRef -> the hands object { player0, player1, player2 }
    call,   \* the last engine call: submitting seat, operation, action,
            \* argument and outcome
    rejections,  \* how many calls in a row have been rejected
    probe,  \* the card lists handed to cardTypes.ts on their own, and its answers
    session \* the HumanGameSession of humanGameManager.ts and its pending
            \* asynchronous continuations

vars == <<game, heap, call, rejections, probe, session>>

Throw(message, h) == [error |-> Some(message), state |-> Null, heap |-> h]
Return(state, h) == [error |-> Null, state |-> Some(state), heap |-> h]

getPlayerHand(state, h, position) ==
    CASE position = 0 -> h[state.hands].player0
      [] position = 1 -> h[state.hands].player1
      [] position = 2 -> h[state.hands].player2

\* state.hands.playerN = hand: writes through the shared reference
setPlayerHand(state, h, position, hand) ==
    CASE position = 0 -> [h EXCEPT ![state.hands].player0 = hand]
      [] position = 1 -> [h EXCEPT ![state.hands].player1 = hand]
      [] position = 2 -> [h EXCEPT ![state.hands].player2 = hand]

getPlayerModelId(state, position) ==
    CASE position = 0 -> state.player0ModelId
      [] position = 1 -> state.player1ModelId
      [] position = 2 -> state.player2ModelId

\* createGame: the new state and the heap holding its hands object
createGame(player0ModelId, player1ModelId, player2ModelId, rnd) ==
    LET dealt == dealCards(rnd)
    IN [state |->
          [gameId |-> "nanoid",
           phase |-> BIDDING,
           player0ModelId |-> player0ModelId,
           player1ModelId |-> player1ModelId,
           player2ModelId |-> player2ModelId,
           hands |-> HandsRef,
           landlordCards |-> dealt.landlordCards,
           currentBidder |-> 0,
           highestBid |-> 0,
           highestBidder |-> Null,
           passCount |-> 0,
           landlordPosition |-> Null,
           currentPlayer |-> 0,
           lastPlayedCards |-> Null,
           lastPlayedPattern |-> Null,
           lastPlayer |-> Null,
           consecutivePasses |-> 0,
           roundNumber |-> 0,
           history |-> <<>>,
           winner |-> Null,
           winnerType |-> Null,
           startedAt |-> Date,
           finishedAt |-> Null],
        heap |-> [r \in {HandsRef} |->
                    [player0 |-> dealt.player0,
                     player1 |-> dealt.player1,
                     player2 |-> dealt.player2]]]

\* faulty variant: the record carries the roundNumber the action leads to
GameActionNextRound(roundNumber, playerPosition, actionType, cards, cardType, bidAmount) ==
    [roundNumber |-> roundNumber + 1, playerPosition |-> playerPosition,
     actionType |-> actionType, cards |-> cards, cardType |-> cardType,
     bidAmount |-> bidAmount, timestamp |-> Date]

GameAction(roundNumber, playerPosition, actionType, cards, cardType, bidAmount) ==
    [roundNumber |-> roundNumber, playerPosition |-> playerPosition,
     actionType |-> actionType, cards |-> cards, cardType |-> cardType,
     bidAmount |-> bidAmount, timestamp |-> Date]

\* faulty variant: the landlord pile is not merged into the landlord's hand
finalizeLandlordKeepsPile(state, h) ==
    IF state.highestBidder = Null THEN Throw("No bidder found", h)
    ELSE
    LET bidder == state.highestBidder[1]
        newState == [state EXCEPT !.landlordPosition = state.highestBidder,
                                  !.phase = PLAYING,
                                  !.currentPlayer = bidder]
    IN Return(newState, h)

\* faulty variant: the pile is appended to the hand without sorting
finalizeLandlordUnsorted(state, h) ==
    IF state.highestBidder = Null THEN Throw("No bidder found", h)
    ELSE
    LET bidder == state.highestBidder[1]
        newState == [state EXCEPT !.landlordPosition = state.highestBidder,
                                  !.phase = PLAYING,
                                  !.currentPlayer = bidder]
        landlordHand == getPlayerHand(newState, h, bidder)
        updatedHand == landlordHand \o state.landlordCards
    IN Return(newState, setPlayerHand(newState, h, bidder, updatedHand))

finalizeLandlord(state, h) ==
    IF state.highestBidder = Null THEN Throw("No bidder found", h)
    ELSE
    LET bidder == state.highestBidder[1]
        newState == [state EXCEPT !.landlordPosition = state.highestBidder,
                                  !.phase = PLAYING,
                                  !.currentPlayer = bidder]
        landlordHand == getPlayerHand(newState, h, bidder)
        updatedHand == sortCards(landlordHand \o state.landlordCards)
    IN Return(newState, setPlayerHand(newState, h, bidder, updatedHand))

\* faulty variant: the turn skips a seat
NextSeatSkips(state, currentPlayer, field) ==
    [state EXCEPT ![field] = (currentPlayer + 2) % 3,
                  !.roundNumber = state.roundNumber + 1]

\* faulty variant: the turn moves on without counting the round
NextSeatKeepsRound(state, currentPlayer, field) ==
    [state EXCEPT ![field] = (currentPlayer + 1) % 3]

\* the tail of processBidAction / processPlayAction: next seat, next round
NextSeat(state, currentPlayer, field) ==
    [state EXCEPT ![field] = (currentPlayer + 1) % 3,
                  !.roundNumber = state.roundNumber + 1]

\* faulty variant: an accepted bid leaves passCount as it was
bidBranchKeepsPassCount(state, newState, h, action, currentPlayer) ==
    IF action.amount = Null \/ action.amount[1] = 0
       \/ action.amount[1] < 1 \/ action.amount[1] > 3
    THEN Throw("Invalid bid amount", h)
    ELSE IF action.amount[1] <= state.highestBid
    THEN Throw("Bid amount must be higher than current highest bid", h)
    ELSE LET bid == [newState EXCEPT !.highestBid = action.amount[1],
                                     !.highestBidder = Some(currentPlayer)]
         IN IF action.amount[1] = 3
            THEN finalizeLandlord(bid, h)
            ELSE Return(NextSeat(bid, currentPlayer, "currentBidder"), h)

\* faulty variant: a bid equal to the highest bid is let through
bidBranchAllowsEqual(state, newState, h, action, currentPlayer) ==
    IF action.amount = Null \/ action.amount[1] = 0
       \/ action.amount[1] < 1 \/ action.amount[1] > 3
    THEN Throw("Invalid bid amount", h)
    ELSE IF action.amount[1] < state.highestBid
    THEN Throw("Bid amount must be higher than current highest bid", h)
    ELSE LET bid == [newState EXCEPT !.highestBid = action.amount[1],
                                     !.highestBidder = Some(currentPlayer),
                                     !.passCount = 0]
         IN IF action.amount[1] = 3
            THEN finalizeLandlord(bid, h)
            ELSE Return(NextSeat(bid, currentPlayer, "currentBidder"), h)

\* the "bid" branch of processBidAction
bidBranch(state, newState, h, action, currentPlayer) ==
    IF action.amount = Null \/ action.amount[1] = 0
       \/ action.amount[1] < 1 \/ action.amount[1] > 3
    THEN Throw("Invalid bid amount", h)
    ELSE IF action.amount[1] <= state.highestBid
    THEN Throw("Bid amount must be higher than current highest bid", h)
    ELSE LET bid == [newState EXCEPT !.highestBid = action.amount[1],
                                     !.highestBidder = Some(currentPlayer),
                                     !.passCount = 0]
         IN IF action.amount[1] = 3
            THEN finalizeLandlord(bid, h)
            ELSE Return(NextSeat(bid, currentPlayer, "currentBidder"), h)

\* faulty variant: when nobody bid, the last seat to pass becomes landlord
passBidBranchLastPasser(newState, h, currentPlayer) ==
    LET passed == [newState EXCEPT !.passCount = newState.passCount + 1]
    IN IF passed.passCount = 3 /\ passed.highestBidder = Null
       THEN finalizeLandlord([passed EXCEPT !.highestBid = 1,
                                            !.highestBidder = Some(currentPlayer)], h)
       ELSE IF passed.highestBidder # Null /\ passed.passCount = 2
       THEN finalizeLandlord(passed, h)
       ELSE Return(NextSeat(passed, currentPlayer, "currentBidder"), h)

\* faulty variant: no seat is made landlord when nobody has bid
passBidBranchNoFallback(newState, h, currentPlayer) ==
    LET passed == [newState EXCEPT !.passCount = newState.passCount + 1]
    IN IF passed.passCount = 3 \/ (passed.highestBidder # Null /\ passed.passCount = 2)
       THEN finalizeLandlord(passed, h)
       ELSE Return(NextSeat(passed, currentPlayer, "currentBidder"), h)

\* faulty variant: after a bid the bidding ends with the third pass only
passBidBranchNeedsThree(newState, h, currentPlayer) ==
    LET passed == [newState EXCEPT !.passCount = newState.passCount + 1]
    IN IF passed.passCount = 3 /\ passed.highestBidder = Null
       THEN finalizeLandlord([passed EXCEPT !.highestBid = 1,
                                            !.highestBidder = Some(0)], h)
       ELSE IF passed.highestBidder # Null /\ passed.passCount = 3
       THEN finalizeLandlord(passed, h)
       ELSE Return(NextSeat(passed, currentPlayer, "currentBidder"), h)

\* the "pass" branch of processBidAction
passBidBranch(newState, h, currentPlayer) ==
    LET passed == [newState EXCEPT !.passCount = newState.passCount + 1]
    IN IF passed.passCount = 3 /\ passed.highestBidder = Null
       THEN finalizeLandlord([passed EXCEPT !.highestBid = 1,
                                            !.highestBidder = Some(0)], h)
       ELSE IF passed.highestBidder # Null /\ passed.passCount = 2
       THEN finalizeLandlord(passed, h)
       ELSE Return(NextSeat(passed, currentPlayer, "currentBidder"), h)

processBidAction(state, h, action) ==
    IF state.phase # BIDDING THEN Throw("Not in bidding phase", h)
    ELSE
    LET currentPlayer == state.currentBidder
        gameAction == GameAction(state.roundNumber, currentPlayer,
                                 IF action.type = "bid" THEN "bid" ELSE "pass_bid",
                                 Null, Null, action.amount)
        newState == [state EXCEPT !.history = Append(state.history, gameAction)]
    IN IF action.type = "bid"
       THEN bidBranch(state, newState, h, action, currentPlayer)
       ELSE passBidBranch(newState, h, currentPlayer)

\* faulty variant: the farmer case of winnerType is forgotten
finishGameAlwaysLandlord(state, winner) ==
    [state EXCEPT !.phase = FINISHED,
                  !.winner = Some(winner),
                  !.winnerType = Some("landlord"),
                  !.finishedAt = Some(Date)]

finishGame(state, winner) ==
    [state EXCEPT !.phase = FINISHED,
                  !.winner = Some(winner),
                  !.winnerType = Some(IF Some(winner) = state.landlordPosition
                                      THEN "landlord" ELSE "farmer"),
                  !.finishedAt = Some(Date)]

\* faulty variant: a play leaves consecutivePasses as it was
playBranchKeepsPasses(state, h, action, currentPlayer, hand) ==
    IF action.cards = Null \/ Len(action.cards[1]) = 0
    THEN Throw("No cards provided", h)
    ELSE IF ~hasCards(hand, action.cards[1])
    THEN Throw("Player does not have these cards", h)
    ELSE
    LET cards == action.cards[1]
        pattern == recognizePattern(cards)
        isNewRound == state.lastPlayer # Null /\ state.lastPlayer = Some(currentPlayer)
        newState == IF isNewRound
                    THEN [state EXCEPT !.lastPlayedCards = Null,
                                       !.lastPlayedPattern = Null,
                                       !.consecutivePasses = 0]
                    ELSE state
        newHand == removeCards(hand, cards)
        gameAction == GameAction(state.roundNumber, currentPlayer, "play",
                                 Some(cardsToStrings(cards)), Some(pattern.type), Null)
        played == [newState EXCEPT !.lastPlayedCards = Some(cards),
                                   !.lastPlayedPattern = Some(pattern),
                                   !.lastPlayer = Some(currentPlayer),
                                   !.history = Append(state.history, gameAction)]
        h2 == setPlayerHand(newState, h, currentPlayer, newHand)
    IN IF pattern.type = INVALID THEN Throw("Invalid card pattern", h)
       ELSE IF newState.lastPlayedPattern # Null
               /\ ~canBeat(pattern, newState.lastPlayedPattern[1])
       THEN Throw("Cannot beat last played cards", h)
       ELSE IF Len(newHand) = 0
       THEN Return(finishGame(played, currentPlayer), h2)
       ELSE Return(NextSeat(played, currentPlayer, "currentPlayer"), h2)

\* faulty variant: the hand is written before the can-beat test
playBranchEarlyRemove(state, h, action, currentPlayer, hand) ==
    IF action.cards = Null \/ Len(action.cards[1]) = 0
    THEN Throw("No cards provided", h)
    ELSE IF ~hasCards(hand, action.cards[1])
    THEN Throw("Player does not have these cards", h)
    ELSE
    LET cards == action.cards[1]
        pattern == recognizePattern(cards)
        isNewRound == state.lastPlayer # Null /\ state.lastPlayer = Some(currentPlayer)
        newState == IF isNewRound
                    THEN [state EXCEPT !.lastPlayedCards = Null,
                                       !.lastPlayedPattern = Null,
                                       !.consecutivePasses = 0]
                    ELSE state
        newHand == removeCards(hand, cards)
        gameAction == GameAction(state.roundNumber, currentPlayer, "play",
                                 Some(cardsToStrings(cards)), Some(pattern.type), Null)
        played == [newState EXCEPT !.lastPlayedCards = Some(cards),
                                   !.lastPlayedPattern = Some(pattern),
                                   !.lastPlayer = Some(currentPlayer),
                                   !.consecutivePasses = 0,
                                   !.history = Append(state.history, gameAction)]
        h2 == setPlayerHand(newState, h, currentPlayer, newHand)
    IN IF pattern.type = INVALID THEN Throw("Invalid card pattern", h)
       ELSE IF newState.lastPlayedPattern # Null
               /\ ~canBeat(pattern, newState.lastPlayedPattern[1])
       THEN Throw("Cannot beat last played cards", h2)
       ELSE IF Len(newHand) = 0
       THEN Return(finishGame(played, currentPlayer), h2)
       ELSE Return(NextSeat(played, currentPlayer, "currentPlayer"), h2)

\* the "play" branch of processPlayAction
\* faulty variant: an emptied hand does not end the game
playBranchNeverFinishes(state, h, action, currentPlayer, hand) ==
    IF action.cards = Null \/ Len(action.cards[1]) = 0
    THEN Throw("No cards provided", h)
    ELSE IF ~hasCards(hand, action.cards[1])
    THEN Throw("Player does not have these cards", h)
    ELSE
    LET cards == action.cards[1]
        pattern == recognizePattern(cards)
        isNewRound == state.lastPlayer # Null /\ state.lastPlayer = Some(currentPlayer)
        newState == IF isNewRound
                    THEN [state EXCEPT !.lastPlayedCards = Null,
                                       !.lastPlayedPattern = Null,
                                       !.consecutivePasses = 0]
                    ELSE state
        newHand == removeCards(hand, cards)
        gameAction == GameAction(state.roundNumber, currentPlayer, "play",
                                 Some(cardsToStrings(cards)), Some(pattern.type), Null)
        played == [newState EXCEPT !.lastPlayedCards = Some(cards),
                                   !.lastPlayedPattern = Some(pattern),
                                   !.lastPlayer = Some(currentPlayer),
                                   !.consecutivePasses = 0,
                                   !.history = Append(state.history, gameAction)]
        h2 == setPlayerHand(newState, h, currentPlayer, newHand)
    IN IF pattern.type = INVALID THEN Throw("Invalid card pattern", h)
       ELSE IF newState.lastPlayedPattern # Null
               /\ ~canBeat(pattern, newState.lastPlayedPattern[1])
       THEN Throw("Cannot beat last played cards", h)
       ELSE Return(NextSeat(played, currentPlayer, "currentPlayer"), h2)

playBranch(state, h, action, currentPlayer, hand) ==
    IF action.cards = Null \/ Len(action.cards[1]) = 0
    THEN Throw("No cards provided", h)
    ELSE IF ~hasCards(hand, action.cards[1])
    THEN Throw("Player does not have these cards", h)
    ELSE
    LET cards == action.cards[1]
        pattern == recognizePattern(cards)
        isNewRound == state.lastPlayer # Null /\ state.lastPlayer = Some(currentPlayer)
        newState == IF isNewRound
                    THEN [state EXCEPT !.lastPlayedCards = Null,
                                       !.lastPlayedPattern = Null,
                                       !.consecutivePasses = 0]
                    ELSE state
        newHand == removeCards(hand, cards)
        gameAction == GameAction(state.roundNumber, currentPlayer, "play",
                                 Some(cardsToStrings(cards)), Some(pattern.type), Null)
        played == [newState EXCEPT !.lastPlayedCards = Some(cards),
                                   !.lastPlayedPattern = Some(pattern),
                                   !.lastPlayer = Some(currentPlayer),
                                   !.consecutivePasses = 0,
                                   !.history = Append(state.history, gameAction)]
        h2 == setPlayerHand(newState, h, currentPlayer, newHand)
    IN IF pattern.type = INVALID THEN Throw("Invalid card pattern", h)
       ELSE IF newState.lastPlayedPattern # Null
               /\ ~canBeat(pattern, newState.lastPlayedPattern[1])
       THEN Throw("Cannot beat last played cards", h)
       ELSE IF Len(newHand) = 0
       THEN Return(finishGame(played, currentPlayer), h2)
       ELSE Return(NextSeat(played, currentPlayer, "currentPlayer"), h2)

\* faulty variant: closing the trick leaves the last played pattern in place
passBranchKeepsPattern(state, h, currentPlayer) ==
    IF state.lastPlayedPattern = Null
    THEN Throw("Cannot pass when you are the first player", h)
    ELSE
    LET gameAction == GameAction(state.roundNumber, currentPlayer, "pass_play",
                                 Null, Null, Null)
        passed == [state EXCEPT !.consecutivePasses = state.consecutivePasses + 1,
                                !.history = Append(state.history, gameAction)]
    IN IF passed.consecutivePasses = 2
       THEN Return([passed EXCEPT !.consecutivePasses = 0,
                                  !.currentPlayer = state.lastPlayer[1],
                                  !.roundNumber = passed.roundNumber + 1], h)
       ELSE Return(NextSeat(passed, currentPlayer, "currentPlayer"), h)

\* faulty variant: the leader is detected by lastPlayer instead of lastPlayedPattern
passBranchChecksLastPlayer(state, h, currentPlayer) ==
    IF state.lastPlayer = Null
    THEN Throw("Cannot pass when you are the first player", h)
    ELSE
    LET gameAction == GameAction(state.roundNumber, currentPlayer, "pass_play",
                                 Null, Null, Null)
        passed == [state EXCEPT !.consecutivePasses = state.consecutivePasses + 1,
                                !.history = Append(state.history, gameAction)]
    IN IF passed.consecutivePasses = 2
       THEN Return([passed EXCEPT !.lastPlayedCards = Null,
                                  !.lastPlayedPattern = Null,
                                  !.consecutivePasses = 0,
                                  !.currentPlayer = state.lastPlayer[1],
                                  !.roundNumber = passed.roundNumber + 1], h)
       ELSE Return(NextSeat(passed, currentPlayer, "currentPlayer"), h)

\* faulty variant: the closed trick leaves the lead with the second passer
passBranchLeadToPasser(state, h, currentPlayer) ==
    IF state.lastPlayedPattern = Null
    THEN Throw("Cannot pass when you are the first player", h)
    ELSE
    LET gameAction == GameAction(state.roundNumber, currentPlayer, "pass_play",
                                 Null, Null, Null)
        passed == [state EXCEPT !.consecutivePasses = state.consecutivePasses + 1,
                                !.history = Append(state.history, gameAction)]
    IN IF passed.consecutivePasses = 2
       THEN Return([passed EXCEPT !.lastPlayedCards = Null,
                                  !.lastPlayedPattern = Null,
                                  !.consecutivePasses = 0,
                                  !.currentPlayer = currentPlayer,
                                  !.roundNumber = passed.roundNumber + 1], h)
       ELSE Return(NextSeat(passed, currentPlayer, "currentPlayer"), h)

\* faulty variant: closing the trick leaves the pass count at 2
passBranchKeepsCount(state, h, currentPlayer) ==
    IF state.lastPlayedPattern = Null
    THEN Throw("Cannot pass when you are the first player", h)
    ELSE
    LET gameAction == GameAction(state.roundNumber, currentPlayer, "pass_play",
                                 Null, Null, Null)
        passed == [state EXCEPT !.consecutivePasses = state.consecutivePasses + 1,
                                !.history = Append(state.history, gameAction)]
    IN IF passed.consecutivePasses = 2
       THEN Return([passed EXCEPT !.lastPlayedCards = Null,
                                  !.lastPlayedPattern = Null,
                                  !.currentPlayer = state.lastPlayer[1],
                                  !.roundNumber = passed.roundNumber + 1], h)
       ELSE Return(NextSeat(passed, currentPlayer, "currentPlayer"), h)

\* faulty variant: passes never close the trick
passBranchNeverCloses(state, h, currentPlayer) ==
    IF state.lastPlayedPattern = Null
    THEN Throw("Cannot pass when you are the first player", h)
    ELSE
    LET gameAction == GameAction(state.roundNumber, currentPlayer, "pass_play",
                                 Null, Null, Null)
        passed == [state EXCEPT !.consecutivePasses = state.consecutivePasses + 1,
                                !.history = Append(state.history, gameAction)]
    IN Return(NextSeat(passed, currentPlayer, "currentPlayer"), h)

\* the "pass" branch of processPlayAction
passBranch(state, h, currentPlayer) ==
    IF state.lastPlayedPattern = Null
    THEN Throw("Cannot pass when you are the first player", h)
    ELSE
    LET gameAction == GameAction(state.roundNumber, currentPlayer, "pass_play",
                                 Null, Null, Null)
        passed == [state EXCEPT !.consecutivePasses = state.consecutivePasses + 1,
                                !.history = Append(state.history, gameAction)]
    IN IF passed.consecutivePasses = 2
       THEN Return([passed EXCEPT !.lastPlayedCards = Null,
                                  !.lastPlayedPattern = Null,
                                  !.consecutivePasses = 0,
                                  !.currentPlayer = state.lastPlayer[1],
                                  !.roundNumber = passed.roundNumber + 1], h)
       ELSE Return(NextSeat(passed, currentPlayer, "currentPlayer"), h)

\* faulty variant: only the Bidding phase is refused
processPlayActionRefusesBiddingOnly(state, h, action) ==
    IF state.phase = BIDDING THEN Throw("Not in playing phase", h)
    ELSE
    LET currentPlayer == state.currentPlayer
        hand == getPlayerHand(state, h, currentPlayer)
    IN IF action.type = "play"
       THEN playBranch(state, h, action, currentPlayer, hand)
       ELSE passBranch(state, h, currentPlayer)

processPlayAction(state, h, action) ==
    IF state.phase # PLAYING THEN Throw("Not in playing phase", h)
    ELSE
    LET currentPlayer == state.currentPlayer
        hand == getPlayerHand(state, h, currentPlayer)
    IN IF action.type = "play"
       THEN playBranch(state, h, action, currentPlayer, hand)
       ELSE passBranch(state, h, currentPlayer)

\* faulty variant: the lowest card of every hand is shown as well
getPublicGameStateFirstCards(state, h, forPlayer) ==
    [gameId |-> state.gameId,
     phase |-> state.phase,
     roundNumber |-> state.roundNumber,
     myHand |-> cardsToStrings(getPlayerHand(state, h, forPlayer)),
     player0HandCount |-> Len(h[state.hands].player0),
     player1HandCount |-> Len(h[state.hands].player1),
     player2HandCount |-> Len(h[state.hands].player2),
     firstCards |-> cardsToStrings(SubSeq(h[state.hands].player0, 1, 1)
                                   \o SubSeq(h[state.hands].player1, 1, 1)
                                   \o SubSeq(h[state.hands].player2, 1, 1)),
     landlordPosition |-> state.landlordPosition,
     landlordCards |-> IF state.phase = PLAYING
                       THEN Some(cardsToStrings(state.landlordCards)) ELSE Null,
     currentBidder |-> IF state.phase = BIDDING THEN Some(state.currentBidder) ELSE Null,
     highestBid |-> state.highestBid,
     highestBidder |-> state.highestBidder,
     currentPlayer |-> IF state.phase = PLAYING THEN Some(state.currentPlayer) ELSE Null,
     lastPlayedCards |-> IF state.lastPlayedCards # Null
                         THEN Some(cardsToStrings(state.lastPlayedCards[1])) ELSE Null,
     lastPlayer |-> state.lastPlayer,
     winner |-> state.winner,
     winnerType |-> state.winnerType]

getPublicGameState(state, h, forPlayer) ==
    [gameId |-> state.gameId,
     phase |-> state.phase,
     roundNumber |-> state.roundNumber,
     myHand |-> cardsToStrings(getPlayerHand(state, h, forPlayer)),
     player0HandCount |-> Len(h[state.hands].player0),
     player1HandCount |-> Len(h[state.hands].player1),
     player2HandCount |-> Len(h[state.hands].player2),
     landlordPosition |-> state.landlordPosition,
     landlordCards |-> IF state.phase = PLAYING
                       THEN Some(cardsToStrings(state.landlordCards)) ELSE Null,
     currentBidder |-> IF state.phase = BIDDING THEN Some(state.currentBidder) ELSE Null,
     highestBid |-> state.highestBid,
     highestBidder |-> state.highestBidder,
     currentPlayer |-> IF state.phase = PLAYING THEN Some(state.currentPlayer) ELSE Null,
     lastPlayedCards |-> IF state.lastPlayedCards # Null
                         THEN Some(cardsToStrings(state.lastPlayedCards[1])) ELSE Null,
     lastPlayer |-> state.lastPlayer,
     winner |-> state.winner,
     winnerType |-> state.winnerType]

(***************************************************************************)
(* Bounds and inputs                                                       *)
(***************************************************************************)
\* calls are made while the history holds fewer than MaxActions records
MaxActions == 6
\* a caller gives up after MaxRejections rejected calls in a row
MaxRejections == 1
\* the longest hand prefix and hand suffix submitted as a play
MaxLead == 6
MaxTail == 2

\* Math.random draws of one shuffle, rnd[i] in 0..i for i = 53 .. 1
NoSwapDraws == [i \in 1..53 |-> i]
QuickDraws ==
    <<1, 1, 1, 2, 2, 2, 4, 3, 3, 6, 9, 4, 7, 5, 12, 6, 7, 12, 8, 7, 8, 21, 11,
      9, 22, 19, 10, 23, 24, 11, 24, 7, 12, 30, 19, 31, 7, 32, 20, 33, 25, 38,
      19, 7, 20, 25, 38, 19, 7, 20, 19, 7, 20>>
RandomDraws == {NoSwapDraws, QuickDraws}

SeatAssignments == {<<1, 2, 3>>, <<3, 1, 1>>}

\* bids a caller submits: every amount while the game is bidding, one pass and
\* one bid once it is not
BidActions(state) ==
    IF state.phase = BIDDING
    THEN {[type |-> "pass", amount |-> Null], [type |-> "bid", amount |-> Null]}
         \cup {[type |-> "bid", amount |-> Some(n)] : n \in 0..4}
    ELSE {[type |-> "pass", amount |-> Null], [type |-> "bid", amount |-> Some(3)]}

Min(a, b) == IF a < b THEN a ELSE b

\* card lists a seat may submit: prefixes and suffixes of its sorted hand, the
\* whole hand, the empty list, a card twice, and a card of the next seat
CardLists(hand, other) ==
    {<<>>}
    \cup {SubSeq(hand, 1, k) : k \in 1..Min(MaxLead, Len(hand))}
    \cup {SubSeq(hand, Len(hand) - k + 1, Len(hand)) : k \in 1..Min(MaxTail, Len(hand))}
    \cup {hand}
    \cup {<<hand[1], hand[1]>> : k \in 1..Min(1, Len(hand))}
    \cup {<<other[1]>> : k \in 1..Min(1, Len(other))}

\* the seat the engine takes the next action from
Cursor(state) ==
    IF state.phase = BIDDING THEN state.currentBidder ELSE state.currentPlayer

\* plays submitted on behalf of seat: every card list of its hand while the
\* game is playing, one pass and one play of a single card once it is not
PlayActionsOf(state, h, seat) ==
    LET hand == getPlayerHand(state, h, seat)
    IN IF state.phase = PLAYING
       THEN {[type |-> "pass", cards |-> Null], [type |-> "play", cards |-> Null]}
            \cup {[type |-> "play", cards |-> Some(cs)] :
                     cs \in CardLists(hand, getPlayerHand(state, h, (seat + 1) % 3))}
       ELSE {[type |-> "pass", cards |-> Null]}
            \cup {[type |-> "play", cards |-> Some(<<state.landlordCards[1]>>)]}

\* plays the seat whose turn it is submits
PlayActions(state, h) == PlayActionsOf(state, h, Cursor(state))

(***************************************************************************)
(* The caller: game = createGame(...); game = processXAction(game, action) *)
(***************************************************************************)
Init ==
    \E ids \in SeatAssignments, rnd \in RandomDraws :
        LET created == createGame(ids[1], ids[2], ids[3], rnd)
        IN /\ game = created.state
           /\ heap = created.heap
           /\ call = [op |-> "createGame", seat |-> Null, action |-> ids,
                      error |-> Null, arg |-> Null, argHands |-> Null]
           /\ rejections = 0
           /\ probe = Null
           /\ session = Null

Apply(op, seat, action, r) ==
    /\ game' = IF r.error = Null THEN r.state[1] ELSE game
    /\ heap' = r.heap
    /\ call' = [op |-> op, seat |-> Some(seat), action |-> action, error |-> r.error,
                arg |-> Some(game), argHands |-> Some(heap[game.hands])]
    /\ rejections' = IF r.error = Null THEN 0 ELSE rejections + 1
    /\ probe' = probe
    /\ session' = session

CanCall == Len(game.history) < MaxActions /\ rejections < MaxRejections

Bid ==
    /\ CanCall
    /\ \E action \in BidActions(game) :
          LET r == processBidAction(game, heap, action)
          IN Apply("processBidAction", Cursor(game), action, r)

Play ==
    /\ CanCall
    /\ \E action \in PlayActions(game, heap) :
          LET r == processPlayAction(game, heap, action)
          IN Apply("processPlayAction", Cursor(game), action, r)

Next == Bid \/ Play

Spec == Init /\ [][Next]_vars

(***************************************************************************)
(* A caller that does not honour the turn: processBidAction(state, action) *)
(* and processPlayAction(state, action) take no seat, so an action of any  *)
(* seat can be handed to them.                                             *)
(***************************************************************************)
Seats == 0..2

BidAs ==
    /\ CanCall
    /\ \E seat \in Seats, action \in BidActions(game) :
          LET r == processBidAction(game, heap, action)
          IN Apply("processBidAction", seat, action, r)

PlayAs ==
    /\ CanCall
    /\ \E seat \in Seats :
          \E action \in PlayActionsOf(game, heap, seat) :
             LET r == processPlayAction(game, heap, action)
             IN Apply("processPlayAction", seat, action, r)

NextAnySeat == BidAs \/ PlayAs

SpecAnySeat == Init /\ [][NextAnySeat]_vars

(***************************************************************************)
(* cardTypes.ts on its own: recognizePattern and canBeat applied to card   *)
(* lists chosen by the caller, as the tests of the card patterns do.       *)
(***************************************************************************)
\* n cards of one rank, from spades on
Of(rank, n) ==
    SubSeq(<<MkCard(SPADE, rank), MkCard(HEART, rank),
             MkCard(CLUB, rank), MkCard(DIAMOND, rank)>>, 1, n)

\* n cards of one rank, up to diamonds
OfLast(rank, n) ==
    SubSeq(<<MkCard(SPADE, rank), MkCard(HEART, rank),
             MkCard(CLUB, rank), MkCard(DIAMOND, rank)>>, 5 - n, 4)

SmallJoker == MkCard(JOKER, SMALL_JOKER)
BigJoker == MkCard(JOKER, BIG_JOKER)

\* one card list, or more, of every pattern type, and some of none
SampleHands ==
    { <<>>,
      Of(THREE, 1), OfLast(THREE, 1), Of(KING, 1), <<SmallJoker>>, <<BigJoker>>,
      Of(THREE, 2), OfLast(THREE, 2), Of(ACE, 2), <<SmallJoker, BigJoker>>,
      Of(THREE, 1) \o Of(FOUR, 1),
      Of(THREE, 3), Of(FOUR, 3),
      Of(THREE, 3) \o Of(FIVE, 1), Of(FOUR, 3) \o Of(THREE, 1),
      Of(THREE, 3) \o Of(FIVE, 2), Of(FOUR, 3) \o Of(THREE, 2),
      Of(THREE, 1) \o Of(FOUR, 1) \o Of(FIVE, 1) \o Of(SIX, 1) \o Of(SEVEN, 1),
      Of(FOUR, 1) \o Of(FIVE, 1) \o Of(SIX, 1) \o Of(SEVEN, 1) \o Of(EIGHT, 1),
      Of(THREE, 1) \o Of(FOUR, 1) \o Of(FIVE, 1) \o Of(SIX, 1) \o Of(SEVEN, 1)
          \o Of(EIGHT, 1),
      Of(JACK, 1) \o Of(QUEEN, 1) \o Of(KING, 1) \o Of(ACE, 1) \o Of(TWO, 1),
      Of(THREE, 2) \o Of(FOUR, 2) \o Of(FIVE, 2),
      Of(FOUR, 2) \o Of(FIVE, 2) \o Of(SIX, 2),
      Of(THREE, 2) \o Of(FOUR, 2) \o Of(FIVE, 2) \o Of(SIX, 2),
      Of(THREE, 3) \o Of(FOUR, 3), Of(FOUR, 3) \o Of(FIVE, 3),
      Of(THREE, 3) \o Of(FOUR, 3) \o Of(FIVE, 3),
      Of(THREE, 3) \o Of(FOUR, 3) \o Of(FIVE, 1) \o Of(SIX, 1),
      Of(FOUR, 3) \o Of(FIVE, 3) \o Of(THREE, 1) \o Of(SIX, 1),
      Of(THREE, 3) \o Of(FOUR, 3) \o Of(FIVE, 2) \o Of(SIX, 2),
      Of(FOUR, 3) \o Of(FIVE, 3) \o Of(THREE, 2) \o Of(SIX, 2),
      Of(THREE, 4) \o Of(FOUR, 1) \o Of(FIVE, 1),
      Of(FOUR, 4) \o Of(THREE, 1) \o Of(FIVE, 1),
      Of(THREE, 4) \o Of(FOUR, 2) \o Of(FIVE, 2),
      Of(FOUR, 4) \o Of(THREE, 2) \o Of(FIVE, 2),
      Of(THREE, 4), Of(FOUR, 4), Of(TWO, 4) }

Reverse(cards) == [i \in 1..Len(cards) |-> cards[Len(cards) + 1 - i]] \o <<>>

\* the first card moved to the end
Rotate(cards) == IF cards = <<>> THEN cards ELSE Tail(cards) \o <<Head(cards)>>

\* the sample hands in the order written, reversed, and rotated by one card
CardOrders == SampleHands \cup {Reverse(c) : c \in SampleHands}
                          \cup {Rotate(c) : c \in SampleHands}

InitPatterns ==
    /\ game = Null
    /\ heap = Null
    /\ call = Null
    /\ rejections = 0
    /\ session = Null
    /\ \E c \in CardOrders, d \in CardOrders :
          probe = [cards1 |-> c, cards2 |-> d,
                   pattern1 |-> Null, pattern2 |-> Null, beats |-> Null]

\* const pattern = recognizePattern(action.cards)
Recognize ==
    /\ probe.pattern1 = Null
    /\ probe' = [probe EXCEPT !.pattern1 = Some(recognizePattern(probe.cards1)),
                              !.pattern2 = Some(recognizePattern(probe.cards2))]
    /\ UNCHANGED <<game, heap, call, rejections, session>>

\* canBeat(pattern, lastPlayedPattern)
Compare ==
    /\ probe.pattern1 # Null
    /\ probe.beats = Null
    /\ probe' = [probe EXCEPT !.beats = Some(canBeat(probe.pattern1[1],
                                                    probe.pattern2[1]))]
    /\ UNCHANGED <<game, heap, call, rejections, session>>

NextPatterns == Recognize \/ Compare

SpecPatterns == InitPatterns /\ [][NextPatterns]_vars

(***************************************************************************)
(* recognizePattern applied to every card set that holds given numbers of  *)
(* cards of the ranks 10 to 2 and of the two jokers.                       *)
(***************************************************************************)
Jokers(small, big) ==
    (IF small = 1 THEN <<SmallJoker>> ELSE <<>>)
    \o (IF big = 1 THEN <<BigJoker>> ELSE <<>>)

InitRankCounts ==
    /\ game = Null
    /\ heap = Null
    /\ call = Null
    /\ rejections = 0
    /\ session = Null
    /\ \E t \in 0..4, j \in 0..4, q \in 0..4, k \in 0..3, a \in 0..3, two \in 0..3,
          small \in 0..1, big \in 0..1 :
          LET cards == Of(TEN, t) \o Of(JACK, j) \o Of(QUEEN, q) \o Of(KING, k)
                       \o Of(ACE, a) \o Of(TWO, two) \o Jokers(small, big)
          IN probe = [cards1 |-> cards, cards2 |-> Reverse(cards),
                      pattern1 |-> Null, pattern2 |-> Null, beats |-> Null]

SpecRankCounts == InitRankCounts /\ [][Recognize]_vars

(***************************************************************************)
(* cardToString and stringToCard on their own: a deck card is written and  *)
(* read back, and a token from elsewhere (a decision provider's answer) is *)
(* read.                                                                   *)
(***************************************************************************)
\* every suit followed by every rank, every rank and every suit alone, the
\* empty string, and half of the joker glyph followed by every rank
TokenSamples ==
    {Suit[i] \o Rank[j] : i \in DOMAIN Suit, j \in DOMAIN Rank}
    \cup Range(Rank) \cup Range(Suit) \cup {<<>>}
    \cup {<<"Jhi">> \o Rank[j] : j \in DOMAIN Rank}

InitTokens ==
    /\ game = Null
    /\ heap = Null
    /\ call = Null
    /\ rejections = 0
    /\ session = Null
    /\ \/ \E c \in Range(createDeck) :
             probe = [card |-> Some(c), token |-> Null, parsed |-> Null]
       \/ \E t \in TokenSamples :
             probe = [card |-> Null, token |-> Some(t), parsed |-> Null]

\* cardToString(card)
ToToken ==
    /\ probe.token = Null
    /\ probe' = [probe EXCEPT !.token = Some(cardToString(probe.card[1]))]
    /\ UNCHANGED <<game, heap, call, rejections, session>>

\* stringToCard(str)
Parse ==
    /\ probe.token # Null
    /\ probe.parsed = Null
    /\ probe' = [probe EXCEPT !.parsed = Some(stringToCard(probe.token[1]))]
    /\ UNCHANGED <<game, heap, call, rejections, session>>

NextTokens == ToToken \/ Parse

SpecTokens == InitTokens /\ [][NextTokens]_vars

(***************************************************************************)
(* client/src/App.tsx: the validator the browser runs before a play is     *)
(* sent.  Its cards are { suit, rank }, its patterns { type, rank?,        *)
(* length? }; a field that is absent is Null here.                         *)
(***************************************************************************)
\* RANK_VALUES[card.rank] || 0
getCardValue(card) ==
    IF card.rank \in Range(Rank)
    THEN (CHOOSE i \in DOMAIN Rank : Rank[i] = card.rank) + 2
    ELSE 0

\* recognizePattern of the client
clientRecognizePattern(cards) ==
    LET ClientPattern(type, rank, length) ==
            [type |-> type, rank |-> rank, length |-> length]
        \* the keys of rankGroups in insertion order: the ranks by first occurrence
        firsts == Ascending({i \in DOMAIN cards :
                                \A j \in 1..(i - 1) : cards[j].rank # cards[i].rank})
        ranks == [k \in DOMAIN firsts |-> cards[firsts[k]].rank] \o <<>>
        GroupSize(cs, rank) == Cardinality({i \in DOMAIN cs : cs[i].rank = rank})
        \* groups.map(g => g.length).sort((a, b) => b - a); a rank comes at most
        \* four times in cards drawn from one deck
        Sized(k) == SelectSeq(ranks, LAMBDA r : GroupSize(cards, r) = k)
        sizes == [i \in DOMAIN Sized(4) |-> 4] \o [i \in DOMAIN Sized(3) |-> 3]
                    \o [i \in DOMAIN Sized(2) |-> 2] \o [i \in DOMAIN Sized(1) |-> 1]
        groupSizes(k) == IF k <= Len(sizes) THEN sizes[k] ELSE 0
        \* values.every((v, i) => i === 0 || v === values[i - 1] + 1)
        IsConsecutive(vs) == \A i \in 2..Len(vs) : vs[i] = vs[i - 1] + 1
        \* values.some(v => v >= 15)
        HasJokerOr2(vs) == \E i \in DOMAIN vs : vs[i] >= 15
        first == getCardValue([rank |-> ranks[1]])
        trioRanks == SelectSeq(ranks, LAMBDA r : GroupSize(cards, r) = 3)
        trioValue == getCardValue([rank |-> trioRanks[1]])
        values == Ascending({getCardValue([rank |-> ranks[i]]) : i \in DOMAIN ranks})
        trioValues ==
            Ascending({getCardValue([rank |-> trioRanks[i]]) : i \in DOMAIN trioRanks})
        wingCount == Len(cards) - Len(trioRanks) * 3
        run == IsConsecutive(values) /\ ~HasJokerOr2(values)
    IN IF Len(cards) = 0 THEN ClientPattern("INVALID", Null, Null)
       ELSE IF Len(cards) = 2
               /\ (\E i \in DOMAIN cards : cards[i].rank = SMALL_JOKER)
               /\ (\E i \in DOMAIN cards : cards[i].rank = BIG_JOKER)
       THEN ClientPattern("ROCKET", Null, Null)
       ELSE IF Len(cards) = 4 /\ groupSizes(1) = 4
       THEN ClientPattern("BOMB", Some(first), Null)
       ELSE IF Len(cards) = 1
       THEN ClientPattern("SINGLE", Some(getCardValue(cards[1])), Null)
       ELSE IF Len(cards) = 2 /\ groupSizes(1) = 2
       THEN ClientPattern("PAIR", Some(first), Null)
       ELSE IF Len(cards) = 3 /\ groupSizes(1) = 3
       THEN ClientPattern("TRIO", Some(first), Null)
       ELSE IF Len(cards) = 4 /\ groupSizes(1) = 3 /\ groupSizes(2) = 1
       THEN ClientPattern("TRIO_SINGLE", Some(trioValue), Null)
       ELSE IF Len(cards) = 5 /\ groupSizes(1) = 3 /\ groupSizes(2) = 2
       THEN ClientPattern("TRIO_PAIR", Some(trioValue), Null)
       ELSE IF Len(cards) >= 5 /\ groupSizes(1) = 1 /\ run
       THEN ClientPattern("STRAIGHT", Some(values[1]), Some(Len(cards)))
       ELSE IF Len(cards) >= 6 /\ Len(cards) % 2 = 0 /\ groupSizes(1) = 2
               /\ run /\ Len(values) >= 3
       THEN ClientPattern("CONSECUTIVE_PAIRS", Some(values[1]), Some(Len(values)))
       ELSE IF Len(cards) >= 6 /\ groupSizes(1) = 3 /\ Len(trioRanks) >= 2
               /\ IsConsecutive(trioValues) /\ ~HasJokerOr2(trioValues)
               /\ wingCount \in {0, Len(trioRanks), Len(trioRanks) * 2}
       THEN ClientPattern(CASE wingCount = 0 -> "AIRPLANE"
                            [] wingCount = Len(trioRanks) -> "AIRPLANE_SINGLE"
                            [] OTHER -> "AIRPLANE_PAIR",
                          Some(trioValues[1]), Some(Len(trioRanks)))
       ELSE IF Len(cards) = 6 /\ groupSizes(1) = 4
       THEN ClientPattern("QUAD_DUAL", Some(first), Null)
       ELSE IF Len(cards) = 8 /\ groupSizes(1) = 4 /\ groupSizes(2) = 2
               /\ groupSizes(3) = 2
       THEN ClientPattern("QUAD_DUAL_PAIR", Some(first), Null)
       ELSE ClientPattern("INVALID", Null, Null)

\* the valid field of the client's canBeat(selectedCards, lastPlayedCards)
clientCanBeat(selectedCards, lastPlayedCards) ==
    LET selectedPattern == clientRecognizePattern(selectedCards)
    IN IF lastPlayedCards = Null \/ Len(lastPlayedCards[1]) = 0
       THEN selectedPattern.type # "INVALID"
       ELSE
       LET lastPattern == clientRecognizePattern(lastPlayedCards[1])
           higher == /\ selectedPattern.rank # Null
                     /\ lastPattern.rank # Null
                     /\ selectedPattern.rank[1] > lastPattern.rank[1]
       IN IF selectedPattern.type = "INVALID" THEN FALSE
          ELSE IF selectedPattern.type = "ROCKET" THEN TRUE
          ELSE IF selectedPattern.type = "BOMB"
          THEN (IF lastPattern.type = "ROCKET" THEN FALSE
                ELSE IF lastPattern.type = "BOMB" THEN higher
                ELSE TRUE)
          ELSE IF selectedPattern.type # lastPattern.type THEN FALSE
          ELSE IF selectedPattern.type \in {"STRAIGHT", "CONSECUTIVE_PAIRS", "AIRPLANE",
                                            "AIRPLANE_SINGLE", "AIRPLANE_PAIR"}
                  /\ selectedPattern.length # lastPattern.length
          THEN FALSE
          ELSE higher

\* The arguments: a selection of card lists (the sample hands, and lists that
\* mix group sizes), and for the table nothing or a valid play made of other
\* cards of the deck.
InitClient ==
    LET Selections ==
            SampleHands
            \cup { Of(THREE, 2) \o Of(FOUR, 2) \o Of(FIVE, 1) \o Of(SIX, 1),
                   Of(THREE, 2) \o Of(FOUR, 1) \o Of(FIVE, 1) \o Of(SIX, 1)
                       \o Of(SEVEN, 1) \o Of(EIGHT, 1),
                   Of(THREE, 3) \o Of(FOUR, 3) \o Of(FIVE, 2),
                   Of(THREE, 3) \o Of(FOUR, 3) \o Of(SIX, 3) \o Of(SEVEN, 1)
                       \o Of(EIGHT, 1) \o Of(NINE, 1),
                   Of(THREE, 4) \o Of(FOUR, 2),
                   Of(FIVE, 1) \o Of(THREE, 4) \o Of(FOUR, 1),
                   Of(THREE, 4) \o Of(FOUR, 4),
                   OfLast(SIX, 2) \o OfLast(SEVEN, 2) \o OfLast(EIGHT, 2),
                   OfLast(SIX, 3) \o OfLast(SEVEN, 1), OfLast(ACE, 1), OfLast(KING, 2) }
        SharesCard(a, b) ==
            \E i \in DOMAIN a, j \in DOMAIN b :
                a[i].suit = b[j].suit /\ a[i].rank = b[j].rank
        LastPlays(selectedCards) ==
            {Null} \cup {Some(d) : d \in {x \in Selections :
                                            /\ recognizePattern(x).type # INVALID
                                            /\ ~SharesCard(selectedCards, x)}}
    IN /\ game = Null
       /\ heap = Null
       /\ call = Null
       /\ rejections = 0
       /\ session = Null
       /\ \E c \in Selections :
             \E d \in LastPlays(c) :
                probe = [selectedCards |-> c, lastPlayedCards |-> d,
                         client |-> Null, server |-> Null]

ClientValidate ==
    /\ probe.client = Null
    /\ probe' = [probe EXCEPT !.client =
                    Some([pattern |-> clientRecognizePattern(probe.selectedCards),
                          valid |-> clientCanBeat(probe.selectedCards,
                                                  probe.lastPlayedCards)])]
    /\ UNCHANGED <<game, heap, call, rejections, session>>

\* The server's answer to the same play: processPlayAction accepts cards of
\* the hand when they form a pattern that beats the active one, if any.
ServerValidate ==
    /\ probe.server = Null
    /\ LET pattern == recognizePattern(probe.selectedCards)
           accepts ==
               /\ Len(probe.selectedCards) > 0
               /\ pattern.type # INVALID
               /\ probe.lastPlayedCards # Null =>
                     canBeat(pattern, recognizePattern(probe.lastPlayedCards[1]))
       IN probe' = [probe EXCEPT !.server =
                       Some([pattern |-> pattern, accepts |-> accepts])]
    /\ UNCHANGED <<game, heap, call, rejections, session>>

SpecClient == InitClient /\ [][ClientValidate \/ ServerValidate]_vars

(***************************************************************************)
(* A game whose state is shown to a seat: getPublicGameState(state, seat)  *)
(* is applied to the state the caller holds and to a state that differs    *)
(* from it only in the cards the other two seats hold.                     *)
(***************************************************************************)
\* hs with the hands of the seats other than forPlayer dealt again from cards
Redealt(hs, forPlayer, cards) ==
    LET a == CHOOSE x \in Seats \ {forPlayer} : \A y \in Seats \ {forPlayer} : x <= y
        b == CHOOSE x \in Seats \ {forPlayer, a} : TRUE
        la == Len(getPlayerHand([hands |-> 1], <<hs>>, a))
        first == SubSeq(cards, 1, la)
        rest == SubSeq(cards, la + 1, Len(cards))
        h1 == setPlayerHand([hands |-> 1], <<hs>>, a, first)
    IN setPlayerHand([hands |-> 1], h1, b, rest)[1]

\* the cards the seats other than forPlayer hold
OtherCards(hs, forPlayer) ==
    LET a == CHOOSE x \in Seats \ {forPlayer} : \A y \in Seats \ {forPlayer} : x <= y
        b == CHOOSE x \in Seats \ {forPlayer, a} : TRUE
    IN getPlayerHand([hands |-> 1], <<hs>>, a) \o getPlayerHand([hands |-> 1], <<hs>>, b)

\* hands of the same sizes in which the other seats hold their cards in
\* another distribution
OtherDeals(hs, forPlayer) ==
    {Redealt(hs, forPlayer, Reverse(OtherCards(hs, forPlayer))),
     Redealt(hs, forPlayer, Rotate(OtherCards(hs, forPlayer)))}

View ==
    /\ probe = Null
    /\ call.error = Null
    /\ \E forPlayer \in Seats :
          \E alt \in OtherDeals(heap[game.hands], forPlayer) :
             probe' = [forPlayer |-> forPlayer,
                       hands |-> heap[game.hands],
                       altHands |-> alt,
                       view |-> getPublicGameState(game, heap, forPlayer),
                       altView |-> getPublicGameState(
                                      game, [heap EXCEPT ![game.hands] = alt], forPlayer)]
    /\ UNCHANGED <<game, heap, call, rejections, session>>

NextView == (probe = Null /\ Next) \/ View

SpecView == Init /\ [][NextView]_vars

(***************************************************************************)
(* aiPlayer.ts: the decisions returned from the catch blocks of            *)
(* aiMakeBidDecision and aiMakePlayDecision                                *)
(***************************************************************************)
defaultBidDecision == [type |-> "pass", amount |-> Null]

\* faulty variant: the fallback passes whatever the table shows
defaultPlayDecisionAlwaysPass(state, h, position) == [type |-> "pass", cards |-> Null]

defaultPlayDecision(state, h, position) ==
    LET hand == getPlayerHand(state, h, position)
    IN IF state.lastPlayedCards = Null /\ Len(hand) > 0
       THEN [type |-> "play", cards |-> Some(<<hand[1]>>)]
       ELSE [type |-> "pass", cards |-> Null]

(***************************************************************************)
(* A game followed through its whole bidding and into the first plays.     *)
(***************************************************************************)
\* bids and plays are submitted while the history holds fewer than MaxBidding
\* records, plays until MaxPlaysAfter of them have been accepted
MaxBidding == 8
MaxPlaysAfter == 1

InitBidding ==
    LET created == createGame(1, 2, 3, QuickDraws)
    IN /\ game = created.state
       /\ heap = created.heap
       /\ call = [op |-> "createGame", seat |-> Null, action |-> <<1, 2, 3>>,
                  error |-> Null, arg |-> Null, argHands |-> Null]
       /\ rejections = 0
       /\ probe = Null
       /\ session = Null

BidOn ==
    /\ Len(game.history) < MaxBidding
    /\ rejections < MaxRejections
    /\ \E action \in BidActions(game) :
          LET r == processBidAction(game, heap, action)
          IN Apply("processBidAction", Cursor(game), action, r)

PlayOn ==
    /\ Len(game.history) < MaxBidding
    /\ Cardinality({i \in DOMAIN game.history : game.history[i].actionType = "play"})
          < MaxPlaysAfter
    /\ rejections < MaxRejections
    /\ \E action \in PlayActions(game, heap) :
          LET r == processPlayAction(game, heap, action)
          IN Apply("processPlayAction", Cursor(game), action, r)

SpecBidding == InitBidding /\ [][BidOn \/ PlayOn]_vars

(***************************************************************************)
(* A caller that fills in the value field itself: PlayAction.cards is a    *)
(* Card[] built by the caller, and the engine does not derive value from   *)
(* rank.  Each play is submitted as the hand holds it and, on the same     *)
(* state, with the same (suit, rank) identities under other values.        *)
(***************************************************************************)
\* the same identities with the value fields the caller may send instead:
\* every value field set to that of the first card, or to 3
Revalued(cards) ==
    LET WithValue(v) == [i \in 1..Len(cards) |-> [cards[i] EXCEPT !.value = v]] \o <<>>
    IN {WithValue(cards[1].value), WithValue(3)} \ {cards}

PlayBoth ==
    /\ CanCall
    /\ \E action \in PlayActions(game, heap) :
          /\ game.phase = PLAYING
          /\ action.cards # Null
          /\ action.cards[1] # <<>>
          /\ \E cards \in Revalued(action.cards[1]) :
                LET r == processPlayAction(game, heap, action)
                    other == [type |-> "play", cards |-> Some(cards)]
                    r2 == processPlayAction(game, heap, other)
                IN /\ game' = IF r.error = Null THEN r.state[1] ELSE game
                   /\ heap' = r.heap
                   /\ call' = [op |-> "processPlayAction", seat |-> Some(Cursor(game)),
                               action |-> action, error |-> r.error,
                               arg |-> Some(game), argHands |-> Some(heap[game.hands])]
                   /\ rejections' = IF r.error = Null THEN 0 ELSE rejections + 1
                   /\ probe' = [action |-> other,
                                twinOf |-> action,
                                arg |-> game,
                                error |-> r2.error,
                                pattern |-> IF r2.error = Null
                                            THEN r2.state[1].lastPlayedPattern
                                            ELSE Null]
                   /\ session' = session

SpecValues == Init /\ [][Bid \/ Play \/ PlayBoth]_vars

(***************************************************************************)
(* humanGameManager.ts: one human-vs-AI session.  The handlers are async;  *)
(* each action below is one stretch of code between two awaits, so a human *)
(* request can arrive between any two of them.  game is session.gameState. *)
(***************************************************************************)
\* "使用 -1 表示人类玩家"
HumanModelId == 0 - 1

\* the ids startHumanGame gives to createGame
HumanSeatIds(humanPlayerPosition, ai1ModelId, ai2ModelId) ==
    CASE humanPlayerPosition = 0 -> <<HumanModelId, ai1ModelId, ai2ModelId>>
      [] humanPlayerPosition = 1 -> <<ai1ModelId, HumanModelId, ai2ModelId>>
      [] OTHER -> <<ai1ModelId, ai2ModelId, HumanModelId>>

\* session.currentAction for a state that waits for its current seat
ActionOfPhase(state) == IF state.phase = BIDDING THEN "bidding" ELSE "playing"

\* startHumanGame up to its first await; starts counts the calls of
\* processAITurns that are due, loops holds the running ones, pending is the
\* human call that awaits processAITurns (with the session as it was when the
\* call came in) and failed the human call whose promise was rejected
startHumanGame(humanPlayerPosition, ai1ModelId, ai2ModelId, rnd) ==
    LET ids == HumanSeatIds(humanPlayerPosition, ai1ModelId, ai2ModelId)
        created == createGame(ids[1], ids[2], ids[3], rnd)
    IN [state |-> created.state,
        heap |-> created.heap,
        ids |-> ids,
        session |-> [humanPlayerPosition |-> humanPlayerPosition,
                     waitingForHuman |-> humanPlayerPosition = 0,
                     currentAction |-> IF created.state.phase = BIDDING
                                       THEN Some("bidding") ELSE Null,
                     starts |-> IF humanPlayerPosition # 0 THEN 1 ELSE 0,
                     loops |-> {},
                     pending |-> Null,
                     failed |-> Null]]

InitHuman ==
    \E humanPlayerPosition \in Seats, rnd \in {QuickDraws} :
        LET started == startHumanGame(humanPlayerPosition, 1, 2, rnd)
        IN /\ game = started.state
           /\ heap = started.heap
           /\ call = [op |-> "createGame", seat |-> Null, action |-> started.ids,
                      error |-> Null, arg |-> Null, argHands |-> Null]
           /\ rejections = 0
           /\ probe = Null
           /\ session = started.session

\* the while loop of processAITurns from its test to the next await: done
\* when the game is finished, waiting when the current seat is the human's,
\* else an AI turn that awaits its decision
LoopHead(sess, state, others) ==
    IF state.phase = FINISHED
    THEN [sess EXCEPT !.loops = others, !.pending = Null]
    ELSE IF Cursor(state) = sess.humanPlayerPosition
         THEN [sess EXCEPT !.waitingForHuman = TRUE,
                           !.currentAction = Some(ActionOfPhase(state)),
                           !.loops = others,
                           !.pending = Null]
         ELSE [sess EXCEPT !.loops = others \cup
                              {[at |-> "decision", state |-> state,
                                currentPlayer |-> Cursor(state)]}]

CanStep == rejections < MaxRejections

\* processAITurns(gameId) is entered: let state = session.gameState
processAITurns ==
    /\ CanStep
    /\ session.starts > 0
    /\ session' = LoopHead([session EXCEPT !.starts = @ - 1], game, session.loops)
    /\ UNCHANGED <<game, heap, call, rejections, probe>>

\* the decisions aiMakeBidDecision / aiMakePlayDecision may return
AIDecisions(state, h) ==
    IF state.phase = BIDDING THEN BidActions(state) ELSE PlayActions(state, h)

\* processAIBiddingTurn / processAIPlayingTurn from the decision to the await
\* of createGameAction: the engine is called on the loop's own state; when it
\* throws, the loop ends with the error
AITurn ==
    /\ CanStep
    /\ \E l \in session.loops :
          /\ l.at = "decision"
          /\ Len(l.state.history) < MaxActions
          /\ \E action \in AIDecisions(l.state, heap) :
                LET bidding == l.state.phase = BIDDING
                    r == IF bidding THEN processBidAction(l.state, heap, action)
                         ELSE processPlayAction(l.state, heap, action)
                IN /\ call' = [op |-> IF bidding THEN "processAIBiddingTurn"
                                      ELSE "processAIPlayingTurn",
                               seat |-> Some(l.currentPlayer), action |-> action,
                               error |-> r.error, arg |-> Some(l.state),
                               argHands |-> Some(heap[l.state.hands])]
                   /\ heap' = r.heap
                   /\ rejections' = IF r.error = Null THEN 0 ELSE rejections + 1
                   /\ session' =
                         IF r.error = Null
                         THEN [session EXCEPT !.loops =
                                  (@ \ {l}) \cup
                                  {[at |-> "saved", state |-> r.state[1],
                                    currentPlayer |-> l.currentPlayer]}]
                         ELSE [session EXCEPT !.loops = @ \ {l},
                                              !.failed = session.pending,
                                              !.pending = Null]
    /\ UNCHANGED <<game, probe>>

\* the AI turn returns: session.gameState = state, and the loop goes on
AITurnSaved ==
    /\ CanStep
    /\ \E l \in session.loops :
          /\ l.at = "saved"
          /\ game' = l.state
          /\ session' = LoopHead(session, l.state, session.loops \ {l})
    /\ UNCHANGED <<heap, call, rejections, probe>>

\* faulty variant: the handler hands every request to the engine
HumanGuardLetsThrough(sess, state, wanted) == Null

\* the tests humanBidAction / humanPlayAction make before the engine call
HumanGuard(sess, state, wanted) ==
    IF ~sess.waitingForHuman \/ sess.currentAction # Some(wanted)
    THEN Some("Not waiting for human " \o wanted \o " action")
    ELSE IF (IF wanted = "bidding" THEN state.currentBidder ELSE state.currentPlayer)
            # sess.humanPlayerPosition
         THEN Some("Not human player's turn")
         ELSE Null

\* a handler up to its first await: rejected by the guard, rejected by the
\* engine, or applied with the continuation (await processAITurns) due
HumanRequest(op, action, guard, r) ==
    LET error == IF guard # Null THEN guard ELSE r.error
    IN /\ call' = [op |-> op, seat |-> Some(session.humanPlayerPosition),
                   action |-> action, error |-> error, arg |-> Some(game),
                   argHands |-> Some(heap[game.hands])]
       /\ rejections' = IF error = Null THEN 0 ELSE rejections + 1
       /\ game' = IF error = Null THEN r.state[1] ELSE game
       /\ heap' = IF guard = Null THEN r.heap ELSE heap
       /\ session' = IF error = Null
                     THEN [session EXCEPT
                             !.waitingForHuman = FALSE,
                             !.currentAction = Null,
                             !.starts = @ + 1,
                             !.pending =
                                Some([op |-> op,
                                      gameState |-> game,
                                      waitingForHuman |-> session.waitingForHuman,
                                      currentAction |-> session.currentAction]),
                             !.failed = Null]
                     ELSE session
       /\ probe' = probe

\* requests the human sends: every bid or play of the own seat when the
\* handler lets the request through, one pass and one proper action when not
HumanBids(guard) ==
    IF guard = Null THEN BidActions(game)
    ELSE {[type |-> "pass", amount |-> Null], [type |-> "bid", amount |-> Some(3)]}

HumanPlays(guard) ==
    IF guard = Null THEN PlayActionsOf(game, heap, session.humanPlayerPosition)
    ELSE LET hand == getPlayerHand(game, heap, session.humanPlayerPosition)
         IN {[type |-> "pass", cards |-> Null],
             [type |-> "play", cards |-> Some(SubSeq(hand, 1, Min(1, Len(hand))))]}

humanBidAction ==
    /\ CanStep
    /\ Len(game.history) < MaxActions
    /\ LET guard == HumanGuard(session, game, "bidding")
       IN \E action \in HumanBids(guard) :
             HumanRequest("humanBidAction", action, guard,
                          processBidAction(game, heap, action))

humanPlayAction ==
    /\ CanStep
    /\ Len(game.history) < MaxActions
    /\ LET guard == HumanGuard(session, game, "playing")
       IN \E action \in HumanPlays(guard) :
             HumanRequest("humanPlayAction", action, guard,
                          processPlayAction(game, heap, action))

NextHuman ==
    \/ processAITurns
    \/ AITurn
    \/ AITurnSaved
    \/ humanBidAction
    \/ humanPlayAction

SpecHuman == InitHuman /\ [][NextHuman]_vars

\* the session when every pending continuation is run: a decision call that
\* returns is followed by the rest of its turn, an await of the database by
\* the code after it
SpecHumanLive ==
    /\ InitHuman
    /\ [][NextHuman]_vars
    /\ WF_vars(processAITurns)
    /\ WF_vars(AITurn)
    /\ WF_vars(AITurnSaved)

(***************************************************************************)
(* Properties                                                              *)
(***************************************************************************)
Hands == heap[game.hands]

HandOf(hs, position) ==
    CASE position = 0 -> hs.player0
      [] position = 1 -> hs.player1
      [] position = 2 -> hs.player2

\* the state passed to the last call, and the hands it held at that moment
Arg == call.arg[1]
ArgHands == call.argHands[1]
Called(op) == call.op = op /\ call.arg # Null
Accepted == call.arg # Null /\ call.error = Null
Rejected == call.arg # Null /\ call.error # Null

SameIdentity(a, b) == a.suit = b.suit /\ a.rank = b.rank

\* cards is contained in hand as a multiset of (suit, rank) identities
ContainsByIdentity(hand, cards) ==
    \A i \in DOMAIN cards :
        Cardinality({j \in DOMAIN cards : SameIdentity(cards[j], cards[i])})
            <= Cardinality({j \in DOMAIN hand : SameIdentity(hand[j], cards[i])})

HeldCards ==
    Hands.player0 \o Hands.player1 \o Hands.player2
    \o (IF game.phase = BIDDING THEN game.landlordCards ELSE <<>>)

RECURSIVE PlayedTokens(_)
PlayedTokens(history) ==
    IF history = <<>> THEN <<>>
    ELSE (IF Head(history).cards = Null THEN <<>> ELSE Head(history).cards[1])
         \o PlayedTokens(Tail(history))

\* C1: no card identity is held twice, and the three hands, the landlord pile
\* while Bidding, and the cards recorded as played in history are together
\* exactly the 54 cards of the deck, each once.
C1_CardConservation ==
    LET held == HeldCards
        identities == {<<held[i].suit, held[i].rank>> : i \in DOMAIN held}
        tokens == cardsToStrings(held) \o PlayedTokens(game.history)
    IN /\ Cardinality(identities) = Len(held)
       /\ Len(tokens) = 54
       /\ Range(tokens) = Range(cardsToStrings(createDeck))

C1_Witness ==
    /\ game.phase = PLAYING
    /\ Len(PlayedTokens(game.history)) >= 2
    /\ Len(HandOf(Hands, game.landlordPosition[1])) < 20

\* C2: in Playing, a Play is accepted exactly when the card list is non-empty,
\* the current player's hand contains the cards by identity with multiplicity,
\* the cards form a valid pattern, and no pattern is active or the new pattern
\* beats the active one.
C2_PlayAcceptedIff ==
    (Called("processPlayAction") /\ Arg.phase = PLAYING /\ call.action.type = "play")
    => (call.error = Null <=>
          /\ call.action.cards # Null
          /\ Len(call.action.cards[1]) > 0
          /\ ContainsByIdentity(HandOf(ArgHands, Arg.currentPlayer), call.action.cards[1])
          /\ recognizePattern(call.action.cards[1]).type # INVALID
          /\ \/ Arg.lastPlayedPattern = Null
             \/ canBeat(recognizePattern(call.action.cards[1]), Arg.lastPlayedPattern[1]))

C2_Witness ==
    /\ Called("processPlayAction") /\ call.action.type = "play"
    /\ call.error = Null
    /\ Arg.lastPlayedPattern # Null

\* C3: a rejected call leaves the game state, the hands included, as it was.
C3_RejectionChangesNothing ==
    Rejected => (game = Arg /\ heap[game.hands] = ArgHands)

C3_Witness ==
    /\ Rejected
    /\ call.error = Some("Cannot beat last played cards")

\* C4: an accepted call does not modify the state passed to it: the hands of
\* the caller's original state are what they were before the call.
C4_ArgumentNotModified ==
    Accepted => heap[Arg.hands] = ArgHands

\* the last three records are a play followed by two playing passes
TrickClosedBy(history) ==
    LET n == Len(history)
    IN /\ n >= 3
       /\ history[n - 2].actionType = "play"
       /\ history[n - 1].actionType = "pass_play"
       /\ history[n].actionType = "pass_play"

\* the seat whose play opened the trick that the last two passes closed
Leader(history) == history[Len(history) - 2].playerPosition

LastActor(history) == history[Len(history)].playerPosition

\* after a play by P and two passes the trick is cleared and P is to act
TrickCleared ==
    TrickClosedBy(game.history)
    => /\ game.phase = PLAYING
       /\ game.lastPlayedCards = Null
       /\ game.lastPlayedPattern = Null
       /\ game.consecutivePasses = 0
       /\ game.currentPlayer = Leader(game.history)

\* the next play of P, of any valid pattern from its hand, is accepted
LeaderPlaysFreely ==
    (/\ Called("processPlayAction") /\ call.action.type = "play"
     /\ TrickClosedBy(Arg.history)
     /\ call.action.cards # Null
     /\ Len(call.action.cards[1]) > 0
     /\ ContainsByIdentity(HandOf(ArgHands, Leader(Arg.history)), call.action.cards[1])
     /\ recognizePattern(call.action.cards[1]).type # INVALID)
    => /\ call.error = Null
       /\ LastActor(game.history) = Leader(Arg.history)

\* C5 as stated: the lead returns to P and P is not the next seat in rotation
\* after the seat that made the closing pass.
C5_LeadNotNextInRotation ==
    /\ TrickCleared
    /\ TrickClosedBy(game.history)
       => game.currentPlayer # (LastActor(game.history) + 1) % 3
    /\ LeaderPlaysFreely

\* C5 (amended): after a play by P and two passes, lastPlayedCards and
\* lastPlayedPattern are null, consecutivePasses is 0 and currentPlayer is P,
\* which is also the seat that follows the second passer in rotation; the
\* next play of P of any valid pattern from its hand is accepted.
C5_TrickCloseReturnsLead ==
    /\ TrickCleared
    /\ TrickClosedBy(game.history)
       => game.currentPlayer = (LastActor(game.history) + 1) % 3
    /\ LeaderPlaysFreely

\* P leads again with a pattern of another type than the one it led before
C5_Witness ==
    /\ Called("processPlayAction") /\ call.action.type = "play"
    /\ call.error = Null
    /\ TrickClosedBy(Arg.history)
    /\ game.lastPlayedPattern[1].type \notin {BOMB, ROCKET}
    /\ Some(game.lastPlayedPattern[1].type) # Arg.history[Len(Arg.history) - 2].cardType

\* C6: a Pass is rejected whenever no lastPlayedPattern is active, at the
\* opening lead and right after a trick has closed.
C6_LeaderCannotPass ==
    (/\ Called("processPlayAction") /\ call.action.type = "pass"
     /\ Arg.phase = PLAYING
     /\ Arg.lastPlayedPattern = Null)
    => call.error = Some("Cannot pass when you are the first player")

C6_Witness ==
    /\ Called("processPlayAction") /\ call.action.type = "pass"
    /\ TrickClosedBy(Arg.history)
    /\ call.error = Some("Cannot pass when you are the first player")

\* C7: an accepted play that empties the acting seat's hand yields Finished
\* with that seat as winner, winnerType by landlordPosition and finishedAt set;
\* Finished arises in no other way, so the winner's hand is empty.
C7_WinDetection ==
    /\ (/\ Called("processPlayAction") /\ call.error = Null
        /\ call.action.type = "play"
        /\ Len(HandOf(Hands, Arg.currentPlayer)) = 0)
       => /\ game.phase = FINISHED
          /\ game.winner = Some(Arg.currentPlayer)
          /\ game.winnerType = Some(IF Arg.landlordPosition = Some(Arg.currentPlayer)
                                    THEN "landlord" ELSE "farmer")
          /\ game.finishedAt # Null
    /\ game.phase = FINISHED
       => /\ game.winner # Null
          /\ HandOf(Hands, game.winner[1]) = <<>>
          /\ game.history # <<>>
          /\ game.history[Len(game.history)].actionType = "play"
          /\ LastActor(game.history) = game.winner[1]
    /\ game.phase # FINISHED
       => game.winner = Null /\ game.winnerType = Null /\ game.finishedAt = Null

C7_Witness ==
    /\ game.phase = FINISHED
    /\ game.winnerType = Some("farmer")
    /\ call.error = Null

PhaseRank(phase) ==
    CASE phase = BIDDING -> 0
      [] phase = PLAYING -> 1
      [] phase = FINISHED -> 2

\* C8: the phase only moves forward; processBidAction fails outside Bidding,
\* processPlayAction fails outside Playing, and in Finished every call fails
\* and the state stays as it is.
C8_PhaseForwardOnly ==
    [][/\ PhaseRank(game.phase) <= PhaseRank(game'.phase)
       /\ (call'.op = "processBidAction" /\ game.phase # BIDDING)
          => call'.error = Some("Not in bidding phase")
       /\ (call'.op = "processPlayAction" /\ game.phase # PLAYING)
          => call'.error = Some("Not in playing phase")
       /\ game.phase = FINISHED
          => (call'.error # Null /\ game' = game /\ heap' = heap)]_vars

C8_Witness ==
    /\ game.phase = FINISHED
    /\ Rejected
    /\ call.action.type = "pass"

\* C9: createGame yields Bidding, currentBidder 0, highestBid 0, no bidder,
\* passCount 0, no landlord, no last play, consecutivePasses 0, roundNumber 0,
\* empty history, no winner, hands of 17/17/17, a pile of 3, ids as given.
C9_CreateGameDefaults ==
    call.op = "createGame"
    => /\ game.phase = BIDDING
       /\ game.currentBidder = 0
       /\ game.highestBid = 0
       /\ game.highestBidder = Null
       /\ game.passCount = 0
       /\ game.landlordPosition = Null
       /\ game.lastPlayedCards = Null
       /\ game.lastPlayedPattern = Null
       /\ game.lastPlayer = Null
       /\ game.consecutivePasses = 0
       /\ game.roundNumber = 0
       /\ game.history = <<>>
       /\ game.winner = Null
       /\ game.winnerType = Null
       /\ Len(Hands.player0) = 17
       /\ Len(Hands.player1) = 17
       /\ Len(Hands.player2) = 17
       /\ Len(game.landlordCards) = 3
       /\ <<game.player0ModelId, game.player1ModelId, game.player2ModelId>> = call.action

C9_Witness ==
    /\ call.op = "createGame"
    /\ game.player0ModelId = 3
    /\ game.player1ModelId = 1

\* C10: in Bidding a Bid with a missing amount or one outside 1..3 is rejected
\* as invalid, a Bid in 1..3 not above highestBid is rejected as too low, so
\* an accepted bid strictly raises highestBid, which never exceeds 3.
C10_BidValidation ==
    /\ (Called("processBidAction") /\ Arg.phase = BIDDING /\ call.action.type = "bid")
       => LET amount == call.action.amount
          IN /\ (amount = Null \/ amount[1] \notin 1..3)
                => call.error = Some("Invalid bid amount")
             /\ (amount # Null /\ amount[1] \in 1..3 /\ amount[1] <= Arg.highestBid)
                => call.error = Some("Bid amount must be higher than current highest bid")
             /\ call.error = Null
                => /\ game.highestBid = amount[1]
                   /\ game.highestBid > Arg.highestBid
    /\ game.highestBid <= 3

C10_Witness ==
    /\ Called("processBidAction") /\ call.action.type = "bid"
    /\ call.action.amount = Some(Arg.highestBid)
    /\ Arg.highestBid > 0
    /\ call.error = Some("Bid amount must be higher than current highest bid")

\* the two seats other than position
Others(position) == {0, 1, 2} \ {position}

\* hand is exactly the cards of before together with those of pile
MergedFrom(hand, before, pile) ==
    /\ Len(hand) = Len(before) + Len(pile)
    /\ Range(hand) = Range(before) \cup Range(pile)

\* C11: an accepted bid of 3 yields Playing at once, with the bidder as landlord
\* and current player, the three pile cards merged into the bidder's hand (20
\* cards) and the other two hands still their 17 cards; and a bid submitted
\* once a landlord exists is never accepted.
C11_BidThreeFinalizes ==
    /\ (Called("processBidAction") /\ Accepted /\ call.action.type = "bid"
         /\ call.action.amount = Some(3))
       => LET bidder == Arg.currentBidder
          IN /\ game.phase = PLAYING
             /\ game.landlordPosition = Some(bidder)
             /\ game.currentPlayer = bidder
             /\ Len(HandOf(Hands, bidder)) = 20
             /\ MergedFrom(HandOf(Hands, bidder), HandOf(ArgHands, bidder),
                           Arg.landlordCards)
             /\ \A o \in Others(bidder) :
                   /\ HandOf(Hands, o) = HandOf(ArgHands, o)
                   /\ Len(HandOf(Hands, o)) = 17
    /\ (Called("processBidAction") /\ Arg.landlordPosition # Null) => Rejected

C11_Witness ==
    /\ Called("processBidAction") /\ Accepted
    /\ call.action.amount = Some(3)
    /\ Arg.currentBidder = 2
    /\ Arg.highestBid = 2

\* every record of history is a bidding pass
AllPassed(history) == \A i \in DOMAIN history : history[i].actionType = "pass_bid"

\* C12: when the first three bidding actions are passes, the game is Playing
\* with seat 0 as landlord and current player, highestBid 1 and highestBidder
\* 0, the pile merged into seat 0's hand and the other two hands, like the
\* pile, those of the deal: nothing is dealt again.
C12_NoBidFallback ==
    (Len(game.history) >= 3 /\ AllPassed(SubSeq(game.history, 1, 3)))
    => \/ /\ Len(game.history) = 3
          /\ game.phase = PLAYING
          /\ game.landlordPosition = Some(0)
          /\ game.currentPlayer = 0
          /\ game.highestBid = 1
          /\ game.highestBidder = Some(0)
          /\ \E rnd \in RandomDraws :
                LET dealt == dealCards(rnd)
                IN /\ MergedFrom(Hands.player0, dealt.player0, dealt.landlordCards)
                   /\ Hands.player1 = dealt.player1
                   /\ Hands.player2 = dealt.player2
                   /\ game.landlordCards = dealt.landlordCards
       \/ /\ Len(game.history) > 3
          /\ game.landlordPosition = Some(0)
          /\ game.history[4].actionType \in {"play", "pass_play"}
          /\ game.history[4].playerPosition = 0

C12_Witness ==
    /\ Len(game.history) = 3
    /\ AllPassed(game.history)
    /\ Called("processBidAction") /\ Accepted
    /\ Arg.passCount = 2

\* the number of bidding passes at the end of history
RECURSIVE TrailingPasses(_)
TrailingPasses(history) ==
    IF history = <<>> \/ history[Len(history)].actionType # "pass_bid" THEN 0
    ELSE 1 + TrailingPasses(SubSeq(history, 1, Len(history) - 1))

ClosedTrick ==
    /\ Called("processPlayAction") /\ call.action.type = "pass"
    /\ Arg.consecutivePasses = 1

\* C14: an accepted action that neither finalizes the landlord, closes a trick
\* nor ends the game moves the turn cursor from seat c to seat (c + 1) mod 3;
\* the cursors are seats 0..2 in every reachable state.
C14_TurnAdvances ==
    /\ (Accepted /\ game.phase = Arg.phase /\ ~ClosedTrick)
       => Cursor(game) = (Cursor(Arg) + 1) % 3
    /\ game.currentBidder \in 0..2
    /\ game.currentPlayer \in 0..2

C14_Witness ==
    /\ Accepted /\ Called("processPlayAction")
    /\ game.phase = PLAYING /\ ~ClosedTrick
    /\ Cursor(Arg) = 2 /\ Cursor(game) = 0

\* hand without the cards whose identity is among cards, order kept
WithoutIdentities(hand, cards) ==
    SelectSeq(hand, LAMBDA c : \A i \in DOMAIN cards : ~SameIdentity(cards[i], c))

\* C15: an accepted Play takes exactly the submitted cards, one per identity,
\* out of the acting seat's hand, leaves the other two hands, the landlord pile
\* and the bidding fields as they were, and sets lastPlayedCards,
\* lastPlayedPattern and lastPlayer to this play with consecutivePasses 0.
C15_PlayEffect ==
    (Called("processPlayAction") /\ Accepted /\ call.action.type = "play")
    => LET seat == Arg.currentPlayer
           cards == call.action.cards[1]
       IN /\ HandOf(Hands, seat) = WithoutIdentities(HandOf(ArgHands, seat), cards)
          /\ Len(HandOf(Hands, seat)) = Len(HandOf(ArgHands, seat)) - Len(cards)
          /\ \A o \in Others(seat) : HandOf(Hands, o) = HandOf(ArgHands, o)
          /\ game.landlordCards = Arg.landlordCards
          /\ game.currentBidder = Arg.currentBidder
          /\ game.highestBid = Arg.highestBid
          /\ game.highestBidder = Arg.highestBidder
          /\ game.passCount = Arg.passCount
          /\ game.landlordPosition = Arg.landlordPosition
          /\ game.lastPlayedCards = Some(cards)
          /\ game.lastPlayedPattern = Some(recognizePattern(cards))
          /\ game.lastPlayer = Some(seat)
          /\ game.consecutivePasses = 0

C15_Witness ==
    /\ Called("processPlayAction") /\ Accepted /\ call.action.type = "play"
    /\ Len(call.action.cards[1]) >= 2
    /\ Arg.consecutivePasses = 1
    /\ game.phase = PLAYING

\* C16: an action submitted by a seat other than the current one (currentBidder
\* in Bidding, currentPlayer in Playing) is rejected.
C16_OffTurnRejected ==
    (call.arg # Null /\ call.seat # Some(Cursor(Arg))) => Rejected

P1 == probe.pattern1[1]
P2 == probe.pattern2[1]
Compared == probe.beats # Null
Beats == probe.beats[1]
BothValid == P1.type # INVALID /\ P2.type # INVALID
RunTypes == {STRAIGHT, PAIR_STRAIGHT, TRIO_STRAIGHT, TRIO_STRAIGHT_SINGLE,
             TRIO_STRAIGHT_PAIR}

\* C17: canBeat(x, incumbent) is false whenever the two valid patterns have
\* the same type, value and length, Bomb and Rocket included.
C17_NoSelfBeat ==
    (Compared /\ BothValid /\ P1.type = P2.type /\ P1.value = P2.value
     /\ P1.length = P2.length)
    => ~Beats

\* C18: among valid patterns a Rocket beats every pattern that is no Rocket, a
\* Bomb beats every pattern that is neither Bomb nor Rocket, a Bomb does not
\* beat a Rocket, and a Bomb beats a Bomb exactly when its value is higher.
C18_RocketAndBomb ==
    (Compared /\ BothValid)
    => /\ (P1.type = ROCKET /\ P2.type # ROCKET) => Beats
       /\ (P1.type = BOMB /\ P2.type \notin {BOMB, ROCKET}) => Beats
       /\ (P1.type = BOMB /\ P2.type = ROCKET) => ~Beats
       /\ (P1.type = BOMB /\ P2.type = BOMB) => (Beats <=> P1.value > P2.value)

C18_Witness ==
    /\ Compared /\ Beats
    /\ P1.type = BOMB /\ P1.value = 3
    /\ P2.type = PAIR /\ P2.value = 14

\* C19: a challenger that is neither Rocket nor Bomb beats the incumbent only
\* if both have the same type, the same length when that type is a run, and
\* the challenger's value is strictly greater; comparePatterns answers every
\* other comparison with -1, 0 or null.
C19_SameTypeOnly ==
    (Compared /\ BothValid /\ P1.type \notin {ROCKET, BOMB})
    => /\ Beats => /\ P1.type = P2.type
                   /\ P1.type \in RunTypes => P1.length = P2.length
                   /\ P1.value > P2.value
       /\ comparePatterns(P1, P2) \in {Null, Some(-1), Some(0), Some(1)}

C19_Witness ==
    /\ Compared /\ ~Beats
    /\ P1.type = STRAIGHT /\ P2.type = STRAIGHT
    /\ P1.value > P2.value
    /\ P1.length # P2.length

\* a and b hold the same cards, each as often
SameCards(a, b) ==
    /\ Len(a) = Len(b)
    /\ \A i \in DOMAIN a :
          Cardinality({j \in DOMAIN a : a[j] = a[i]})
              = Cardinality({j \in DOMAIN b : b[j] = a[i]})

\* C20: recognizePattern gives two orderings of the same cards the same type,
\* value and length.
C20_OrderIrrelevant ==
    (probe.pattern1 # Null /\ SameCards(probe.cards1, probe.cards2))
    => /\ P1.type = P2.type
       /\ P1.value = P2.value
       /\ P1.length = P2.length

C20_Witness ==
    /\ probe.pattern1 # Null
    /\ SameCards(probe.cards1, probe.cards2)
    /\ probe.cards1 # probe.cards2
    /\ P1.type = ROCKET

Recognized == probe.pattern1 # Null
Values(cards) == {cards[i].value : i \in DOMAIN cards}
Ranks(cards) == {cards[i].rank : i \in DOMAIN cards}
CountOf(cards, v) == Cardinality({i \in DOMAIN cards : cards[i].value = v})
Lowest(S) == CHOOSE v \in S : \A w \in S : v <= w
\* S is a run of consecutive numbers
IsRun(S) == \A v \in S : v = Lowest(S) \/ (v - 1) \in S

\* at least 5 cards of distinct, strictly consecutive ranks, none a 2 or a joker
StraightSet(cards) ==
    /\ Len(cards) >= 5
    /\ Cardinality(Ranks(cards)) = Len(cards)
    /\ IsRun(Values(cards))
    /\ \A v \in Values(cards) : v < 15

Trios(cards) == {v \in Values(cards) : CountOf(cards, v) = 3}
\* the cards that belong to no trio
Wings(cards) == SelectSeq(cards, LAMBDA c : c.value \notin Trios(cards))
\* two trios of consecutive ranks below 15
HasAirplane(cards) ==
    \E v \in Trios(cards) : (v + 1) \in Trios(cards) /\ v + 1 < 15
\* the trios are one run below 15
TriosInARow(cards) == IsRun(Trios(cards)) /\ \A v \in Trios(cards) : v < 15

\* the answer the airplane rule gives for a card set with HasAirplane
AirplaneType(cards) ==
    LET trioCount == Cardinality(Trios(cards))
        wings == Wings(cards)
    IN IF ~TriosInARow(cards) THEN INVALID
       ELSE IF Len(wings) = 0 THEN TRIO_STRAIGHT
       ELSE IF Len(wings) = trioCount
               /\ \A v \in Values(wings) : CountOf(cards, v) = 1
            THEN TRIO_STRAIGHT_SINGLE
       ELSE IF Len(wings) = 2 * trioCount
               /\ \A v \in Values(wings) : CountOf(cards, v) = 2
            THEN TRIO_STRAIGHT_PAIR
       ELSE INVALID

\* C22: for a card set with two or more trios of consecutive ranks below 15,
\* recognizePattern answers plain airplane without other cards, airplane with
\* singles for as many single cards as trios, airplane with pairs for as many
\* pairs as trios, each with the lowest trio value and the trio count, and
\* INVALID for every other shape of the remaining cards.
C22_Airplane ==
    (Recognized /\ HasAirplane(probe.cards1))
    => /\ P1.type = AirplaneType(probe.cards1)
       /\ P1.type # INVALID =>
             /\ P1.value = Lowest(Trios(probe.cards1))
             /\ P1.length = Cardinality(Trios(probe.cards1))

C22_Witness ==
    /\ Recognized
    /\ HasAirplane(probe.cards1)
    /\ P1.type = TRIO_STRAIGHT_PAIR
    /\ P1.length = 2

DeckTokens == {cardToString(c) : c \in Range(createDeck)}

\* C23: reading back the token of a deck card gives a card of the same suit,
\* rank and value, and the 54 deck cards have 54 distinct tokens.
C23_RoundTrip ==
    /\ Cardinality(DeckTokens) = 54
    /\ (probe.card # Null /\ probe.parsed # Null)
       => /\ probe.parsed[1] # Null
          /\ probe.parsed[1][1].suit = probe.card[1].suit
          /\ probe.parsed[1][1].rank = probe.card[1].rank
          /\ probe.parsed[1][1].value = probe.card[1].value

C23_Witness ==
    /\ probe.card # Null /\ probe.parsed # Null
    /\ probe.card[1].rank = SMALL_JOKER

\* C24: stringToCard returns a card only for the 54 tokens of the deck cards,
\* and the card is then a deck card; every other token gives null.
C24_OnlyDeckTokens ==
    (probe.parsed # Null /\ probe.parsed[1] # Null)
    => /\ probe.token[1] \in DeckTokens
       /\ probe.parsed[1][1] \in Range(createDeck)
Viewed == probe # Null

\* the hands of the two states differ in nothing but the other seats' cards
SameOwnHandAndSizes ==
    /\ HandOf(probe.altHands, probe.forPlayer) = HandOf(probe.hands, probe.forPlayer)
    /\ \A p \in Seats : Len(HandOf(probe.altHands, p)) = Len(HandOf(probe.hands, p))

\* C25: the projection getPublicGameState returns for a seat is the same for
\* two states that differ only in which cards the other seats hold (hand
\* sizes equal), and it holds the seat's own full hand and the three counts.
C25_ViewHidesOtherHands ==
    Viewed =>
        /\ SameOwnHandAndSizes
        /\ probe.view = probe.altView
        /\ probe.view.myHand = cardsToStrings(HandOf(probe.hands, probe.forPlayer))
        /\ probe.view.player0HandCount = Len(probe.hands.player0)
        /\ probe.view.player1HandCount = Len(probe.hands.player1)
        /\ probe.view.player2HandCount = Len(probe.hands.player2)

C25_Witness ==
    /\ Viewed
    /\ game.phase = PLAYING
    /\ game.lastPlayedCards # Null
    /\ probe.forPlayer # game.landlordPosition[1]
    /\ \A p \in Seats \ {probe.forPlayer} :
          /\ HandOf(probe.altHands, p) # HandOf(probe.hands, p)
          /\ HandOf(probe.altHands, p)[1] # HandOf(probe.hands, p)[1]

HumanOps == {"humanBidAction", "humanPlayAction"}
AIOps == {"processAIBiddingTurn", "processAIPlayingTurn"}

\* the phase an operation belongs to
PhaseOf(op) ==
    IF op \in {"humanBidAction", "processAIBiddingTurn"} THEN BIDDING ELSE PLAYING

\* the session waits for the human, for an action of the game's phase, and the
\* engine's current seat is the human's
HumansTurn ==
    /\ session.waitingForHuman
    /\ session.currentAction = Some(ActionOfPhase(game))
    /\ Cursor(game) = session.humanPlayerPosition

\* this step called a handler: the call record is a new one
Handled == call'.arg # call.arg \/ call'.error # call.error

\* C26: in a human-vs-AI session a human bid or play is applied only when
\* waitingForHuman is true, currentAction matches the phase and the engine's
\* current seat is the human seat; a human request at any other time is
\* rejected and leaves the session as it was; an AI decision is applied only
\* to the session's state and only when its current seat is an AI seat.
C26_TurnOwner ==
    [][/\ (Handled /\ call'.op \in HumanOps) =>
             /\ call'.arg = Some(game)
             /\ call'.seat = Some(session.humanPlayerPosition)
             /\ call'.error = Null => HumansTurn /\ game.phase = PhaseOf(call'.op)
             /\ ~HumansTurn =>
                   /\ call'.error # Null
                   /\ session' = session
                   /\ game' = game
                   /\ heap' = heap
       /\ (Handled /\ call'.op \in AIOps) =>
             /\ call'.arg = Some(game)
             /\ call'.seat = Some(Cursor(game))
             /\ Cursor(game) # session.humanPlayerPosition
             /\ game.phase = PhaseOf(call'.op)]_vars

\* a second human request, made while the AI turns that follow the first are
\* in progress
C26_Witness ==
    /\ session # Null
    /\ call.op \in HumanOps
    /\ call.error # Null
    /\ session.loops # {}
    /\ \E i \in DOMAIN game.history :
          game.history[i].playerPosition = session.humanPlayerPosition
    /\ \E i \in DOMAIN game.history :
          game.history[i].playerPosition # session.humanPlayerPosition

\* the seat to act is the one that played last (new-round detection)
IsNewRound == Some(game.currentPlayer) = game.lastPlayer

\* a trick has just been closed: somebody has played and no pattern is active
TrickJustClosed == game.lastPlayer # Null /\ game.lastPlayedPattern = Null

\* C27: in every Playing state currentPlayer = lastPlayer exactly when
\* lastPlayer is not null and lastPlayedPattern is null, so a seat that is
\* detected as starting a new round never faces an active pattern.
C27_NewRoundAgrees ==
    game.phase = PLAYING =>
        /\ IsNewRound <=> TrickJustClosed
        /\ IsNewRound => game.lastPlayedPattern = Null /\ game.lastPlayedCards = Null

C27_Witness ==
    /\ game.phase = PLAYING
    /\ IsNewRound
    /\ TrickJustClosed
    /\ call.op = "processPlayAction"
    /\ call.error = Null
    /\ call.action.type = "pass"

Sorted(cards) == \A i \in 1..(Len(cards) - 1) : cards[i].value <= cards[i + 1].value

\* C28: in every reachable state each of the three hands is sorted in
\* non-decreasing card value, so the first card of a non-empty hand is one of
\* its lowest-valued cards.
C28_HandsSorted ==
    game # Null =>
        \A p \in Seats :
            LET hand == HandOf(Hands, p)
            IN /\ Sorted(hand)
               /\ \A i \in DOMAIN hand : hand[1].value <= hand[i].value

\* after an accepted play, the landlord holding a pile card that is not among
\* the last three cards of its hand
C28_Witness ==
    /\ game.phase = PLAYING
    /\ Called("processPlayAction")
    /\ Accepted
    /\ call.action.type = "play"
    /\ LET hand == HandOf(Hands, game.landlordPosition[1])
       IN \E i \in 1..(Len(hand) - 3) :
             \E k \in DOMAIN game.landlordCards :
                SameIdentity(hand[i], game.landlordCards[k])

\* the record an accepted call appends
LastRecord == game.history[Len(game.history)]

\* the action type recorded for the call
RecordedType ==
    IF call.op = "processBidAction"
    THEN (IF call.action.type = "bid" THEN "bid" ELSE "pass_bid")
    ELSE (IF call.action.type = "play" THEN "play" ELSE "pass_play")

\* C29: history is append-only: an accepted bid, bidding pass, play or playing
\* pass appends exactly one record with the acting seat, the action type and
\* the roundNumber in force before the action (and the card tokens and the
\* pattern type for a play), the earlier records stay as they were, and a
\* rejected action appends nothing.
C29_HistoryAppendOnly ==
    /\ Accepted =>
          /\ Len(game.history) = Len(Arg.history) + 1
          /\ SubSeq(game.history, 1, Len(Arg.history)) = Arg.history
          /\ LastRecord.playerPosition = Cursor(Arg)
          /\ LastRecord.actionType = RecordedType
          /\ LastRecord.roundNumber = Arg.roundNumber
          /\ RecordedType = "play" =>
                /\ LastRecord.cards = Some(cardsToStrings(call.action.cards[1]))
                /\ LastRecord.cardType = Some(recognizePattern(call.action.cards[1]).type)
          /\ RecordedType # "play" => LastRecord.cards = Null /\ LastRecord.cardType = Null
    /\ Rejected => game.history = Arg.history

\* a play appended after bids and a closed trick, so that roundNumber has moved
C29_Witness ==
    /\ Accepted
    /\ RecordedType = "play"
    /\ Len(game.history) >= 4
    /\ LastRecord.roundNumber > game.history[Len(game.history) - 1].roundNumber

\* C30: in every Playing state with an active lastPlayedPattern,
\* consecutivePasses is 0 or 1 and currentPlayer is
\* (lastPlayer + 1 + consecutivePasses) mod 3, so no seat has to beat its own
\* play; and consecutivePasses is 0 whenever no pattern is active.
C30_PassCount ==
    game.phase = PLAYING =>
        /\ game.lastPlayedPattern # Null =>
              /\ game.consecutivePasses \in {0, 1}
              /\ game.lastPlayer # Null
              /\ game.currentPlayer
                    = (game.lastPlayer[1] + 1 + game.consecutivePasses) % 3
              /\ Some(game.currentPlayer) # game.lastPlayer
        /\ game.lastPlayedPattern = Null => game.consecutivePasses = 0

C30_Witness ==
    /\ game.phase = PLAYING
    /\ game.lastPlayedPattern # Null
    /\ game.consecutivePasses = 1
    /\ game.roundNumber > 3

\* 1 when the condition holds, else 0
Count01(b) == IF b THEN 1 ELSE 0

\* the accepted call finalized the landlord / was the winning play
Finalizing == Arg.phase = BIDDING /\ game.phase = PLAYING
Winning == Arg.phase = PLAYING /\ game.phase = FINISHED

\* C31: roundNumber never decreases; it equals the number of history records,
\* minus 1 once the landlord is finalized, minus 1 more once the game is
\* Finished: the finalizing action and the winning play leave it unchanged,
\* every other accepted action (the trick-closing pass too) adds exactly 1.
C31_RoundNumber ==
    /\ game.roundNumber = Len(game.history)
                          - Count01(game.landlordPosition # Null)
                          - Count01(game.phase = FINISHED)
    /\ call.arg # Null => game.roundNumber >= Arg.roundNumber
    /\ Accepted =>
          game.roundNumber =
             Arg.roundNumber + (IF Finalizing \/ Winning THEN 0 ELSE 1)

\* the pass that closes a trick has been accepted
C31_Witness ==
    /\ Accepted
    /\ Called("processPlayAction")
    /\ call.action.type = "pass"
    /\ game.lastPlayedPattern = Null
    /\ game.roundNumber = Arg.roundNumber + 1
    /\ game.roundNumber = Len(game.history) - 1

EmptyHanded == {p \in Seats : HandOf(Hands, p) = <<>>}

\* C32: in every Playing state all three hands are non-empty; in every
\* Finished state exactly one hand, the winner's, is empty; at the start of
\* Playing the landlord holds 20 cards and each farmer 17.
C32_HandSizes ==
    /\ game.phase = PLAYING => EmptyHanded = {}
    /\ game.phase = FINISHED =>
          game.winner # Null /\ EmptyHanded = {game.winner[1]}
    /\ (Accepted /\ Finalizing) =>
          \A p \in Seats :
             Len(HandOf(Hands, p)) = IF Some(p) = game.landlordPosition THEN 20 ELSE 17

C32_Witness ==
    /\ game.phase = FINISHED
    /\ Accepted
    /\ EmptyHanded = {game.winner[1]}
    /\ Len(game.history) >= 3

PassBid == [type |-> "pass", amount |-> Null]
PassPlay == [type |-> "pass", cards |-> Null]
PlaySingle(card) == [type |-> "play", cards |-> Some(<<card>>)]

\* the engine accepts the action in the state the caller holds
AcceptsBid(action) == processBidAction(game, heap, action).error = Null
AcceptsPlay(action) == processPlayAction(game, heap, action).error = Null

CurrentHand == getPlayerHand(game, heap, Cursor(game))

\* C33: the engine never deadlocks before the end: in every state that is not
\* Finished an action is accepted, namely Pass in Bidding, Pass in Playing
\* when a lastPlayedPattern is active, and otherwise a Play of any single
\* card of the current player's hand (which is not empty).
C33_NoDeadlock ==
    /\ game.phase = BIDDING => AcceptsBid(PassBid)
    /\ (game.phase = PLAYING /\ game.lastPlayedPattern # Null) => AcceptsPlay(PassPlay)
    /\ (game.phase = PLAYING /\ game.lastPlayedPattern = Null) =>
          /\ CurrentHand # <<>>
          /\ \A i \in DOMAIN CurrentHand : AcceptsPlay(PlaySingle(CurrentHand[i]))

\* the leader of a new trick has played a single card
C33_Witness ==
    /\ Accepted
    /\ Called("processPlayAction")
    /\ call.action.type = "play"
    /\ Len(call.action.cards[1]) = 1
    /\ Arg.lastPlayedPattern = Null
    /\ Arg.lastPlayer # Null
    /\ game.phase = PLAYING

TotalCards(hs) == Len(hs.player0) + Len(hs.player1) + Len(hs.player2)

\* passes that may still be accepted before the next play
PassesLeft(state) ==
    IF state.lastPlayedPattern = Null THEN 0 ELSE 2 - state.consecutivePasses

\* a measure of what is left of the game: it bounds the number of actions
\* that can still be accepted
Variant(state, hs) == 3 * TotalCards(hs) + PassesLeft(state)

\* three playing passes in a row
ThreePasses(history) ==
    \E i \in 1..(Len(history) - 2) :
        \A k \in 0..2 : history[i + k].actionType = "pass_play"

\* C34: from a Playing state every sequence of accepted actions is finite and
\* ends Finished: every accepted play removes at least one card, at most two
\* accepted passes lie between two plays, so each accepted action lowers a
\* measure that is never negative, and a game that is not Finished still has
\* an action to accept.
C34_PlayTerminates ==
    /\ (Accepted /\ Arg.phase = PLAYING) =>
          /\ Variant(game, Hands) < Variant(Arg, ArgHands)
          /\ call.action.type = "play" => TotalCards(Hands) < TotalCards(ArgHands)
          /\ call.action.type = "pass" => TotalCards(Hands) = TotalCards(ArgHands)
    /\ game.phase # BIDDING =>
          /\ Variant(game, Hands) >= 0
          /\ PassesLeft(game) \in 0..2
          /\ ~ThreePasses(game.history)
    /\ (game.phase = PLAYING /\ game.lastPlayedPattern # Null) =>
          processPlayAction(game, heap, [type |-> "pass", cards |-> Null]).error = Null
    /\ (game.phase = PLAYING /\ game.lastPlayedPattern = Null) =>
          processPlayAction(game, heap,
                            [type |-> "play",
                             cards |-> Some(SubSeq(CurrentHand, 1, 1))]).error = Null

\* a game that has seen a play, two passes and the winning play
C34_Witness ==
    /\ game.phase = FINISHED
    /\ Accepted
    /\ \E i \in 1..(Len(game.history) - 1) :
          /\ game.history[i].actionType = "pass_play"
          /\ game.history[i + 1].actionType = "pass_play"

BidRecords(history) ==
    {i \in DOMAIN history : history[i].actionType \in {"bid", "pass_bid"}}

Twinned ==
    /\ probe # Null
    /\ Called("processPlayAction")
    /\ probe.twinOf = call.action
    /\ probe.arg = Arg

\* C36: the legality decision of processPlayAction and the pattern it records
\* depend only on the (suit, rank) identities of the submitted cards: two
\* plays of the same identities with different value fields are both
\* rejected, or both accepted with the same pattern type and value.
C36_IdentityDecides ==
    Twinned =>
        /\ (call.error = Null) <=> (probe.error = Null)
        /\ call.error = Null =>
              /\ probe.pattern[1].type = game.lastPlayedPattern[1].type
              /\ probe.pattern[1].value = game.lastPlayedPattern[1].value

\* C37: the default decisions used when a decision provider fails are
\* accepted in every reachable state where the seat is to act: Pass in
\* Bidding; in Playing a Play of the first card of the hand when
\* lastPlayedCards is null, and a Pass otherwise.
C37_DefaultsAccepted ==
    /\ game.phase = BIDDING =>
          processBidAction(game, heap, defaultBidDecision).error = Null
    /\ game.phase = PLAYING =>
          /\ processPlayAction(game, heap,
                               defaultPlayDecision(game, heap, game.currentPlayer)).error
                = Null
          /\ defaultPlayDecision(game, heap, game.currentPlayer).type
                = IF game.lastPlayedCards = Null THEN "play" ELSE "pass"

\* the default play of a leader and the default pass have both been applied
C37_Witness ==
    /\ Accepted
    /\ Called("processPlayAction")
    /\ call.action = defaultPlayDecision(Arg, <<ArgHands>>, Arg.currentPlayer)
    /\ call.action.type = "play"
    /\ \E i \in DOMAIN game.history : game.history[i].actionType = "pass_play"

\* the last call was a human action that the engine accepted
HumanApplied == call.op \in HumanOps /\ call.error = Null

\* the session waits for the human, whose seat is the current one
WaitsAgain ==
    session.waitingForHuman /\ Cursor(game) = session.humanPlayerPosition

\* the exploration ends here: the human has given up after a rejected request,
\* or an AI seat is to decide with MaxActions records in its history
Cut ==
    \/ rejections >= MaxRejections /\ call.op \in HumanOps
    \/ \E l \in session.loops : l.at = "decision" /\ Len(l.state.history) >= MaxActions

\* C38: after every accepted human action the session eventually waits for
\* the human again, with the human seat as current seat, or has a Finished
\* game, whatever decisions the AI seats return.
C38_HumanTurnReturns ==
    [](HumanApplied => <>(WaitsAgain \/ game.phase = FINISHED \/ Cut))

\* a human call has reported an error: at once, or when the processAITurns
\* it awaits has thrown
FailedAtOnce == session # Null /\ call.op \in HumanOps /\ call.error # Null
FailedLater == session # Null /\ session.failed # Null

\* C39: if humanBidAction or humanPlayAction fails, gameState, waitingForHuman
\* and currentAction are as they were before the call: a human action whose
\* call reports an error has not been applied to the game.
C39_FailedCallUnapplied ==
    /\ FailedAtOnce => game = Arg /\ Hands = ArgHands
    /\ FailedLater =>
          /\ game = session.failed[1].gameState
          /\ session.waitingForHuman = session.failed[1].waitingForHuman
          /\ session.currentAction = session.failed[1].currentAction

Validated == probe.client # Null /\ probe.server # Null

\* C40: the client-side validator agrees with the server engine: the client
\* tags a card list INVALID exactly when the server does, and the client's
\* canBeat reports valid exactly when the server would accept the play over
\* the last play.
C40_ClientAgrees ==
    Validated =>
        /\ (probe.client[1].pattern.type = "INVALID")
              <=> (probe.server[1].pattern.type = INVALID)
        /\ probe.client[1].valid <=> probe.server[1].accepts

====
